---------------------------- MODULE Spec2Model ----------------------------
(***************************************************************************)
(* State-machine model of the lock-free primitives of lock-free-cpp:       *)
(* WaitFreeZeroStickyCounter, LockFreeZeroStickyCounter, SeqLock,          *)
(* SPSCQueue and MPMCQueue.                                                *)
(* Every atomic access of the C++ code is one step of the thread that      *)
(* performs it; threads interleave freely.                                 *)
(***************************************************************************)
EXTENDS Integers, Sequences, FiniteSets, TLC

(***************************************************************************)
(* Bounds of the model.                                                    *)
(***************************************************************************)
NumThreads == 3        \* threads using a sticky counter
MaxInitial == 2        \* largest initial_value passed to a counter constructor
MaxIncrements == 2     \* incrementIfNotZero calls made on one counter
NumReaders == 1        \* threads calling SeqLock::read
NumParts == 2          \* words of T that are copied one after the other
MaxWrites == 2         \* SeqLock::write calls made by the writer
MaxCapacity == 3       \* largest capacity passed to a queue constructor
MaxPushes == 5         \* SPSCQueue: pushes that return true
NumQueueThreads == 2   \* threads calling push and pop on an MPMCQueue
MaxPushCalls == 3      \* MPMCQueue: push calls made
MaxOwnSteps == 6       \* MPMCQueue: steps counted for a call that runs alone

Threads == 1 .. NumThreads
Readers == 1 .. NumReaders
Parts == 1 .. NumParts

(***************************************************************************)
(* uint64_t words.  A word w is held as [hi, lo] and stands for            *)
(* (hi * 2^62 + lo) mod 2^64 with hi in 0..3 and lo a small (possibly      *)
(* negative) offset: fetch_add/fetch_sub move lo, the two flag bits 63 and *)
(* 62 are read off hi after the borrow of a negative lo.  Within the       *)
(* bounds |lo| stays far below 2^62, so the encoding is one-to-one and the *)
(* arithmetic is exactly the 64-bit wrap-around arithmetic of the code.    *)
(***************************************************************************)
Word(h, l) == [hi |-> h, lo |-> l]

\* bits 63 and 62 of the word, as a number in 0..3
TopBits(w) == IF w.lo < 0 THEN (w.hi + 3) % 4 ELSE w.hi

\* fetch_add(1) / fetch_sub(1) new value
WordAdd(w, n) == [w EXCEPT !.lo = @ + n]

\* static constexpr uint64_t zero = 1ull << 63
zero == Word(2, 0)

\* static constexpr uint64_t helped = 1ull << 62
helped == Word(1, 0)

\* zero | helped
zero_or_helped == Word(3, 0)

\* (w & zero) != 0
HasZero(w) == TopBits(w) \div 2 = 1

\* (w & helped) != 0
HasHelped(w) == TopBits(w) % 2 = 1

\* the plain count n (no flag set)
Plain(n) == Word(0, n)

VARIABLES
  \* ---- WaitFreeZeroStickyCounter
  wf_counter,      \* counter_
  wf_pc,           \* per thread: where it is inside a call
  wf_val,          \* per thread: the local val of decrement() / read()
  wf_after,        \* per thread: its call in progress started after a read() returned 0
  wf_ret,          \* the call that returned in the latest step, if one did
  wf_held,         \* per thread: references it holds
  wf_init,         \* initial_value
  wf_incCalls,     \* incrementIfNotZero calls made
  wf_incTrue,      \* incrementIfNotZero calls that returned true
  wf_decStarted,   \* decrement calls started
  wf_decTrue,      \* decrement calls that returned true
  wf_readZero,     \* some read() has returned 0
  wf_lin,          \* linearizability monitor (see LinStep)
  \* ---- LockFreeZeroStickyCounter
  lf_counter,      \* counter_
  lf_pc,           \* per thread: where it is inside a call
  lf_value,        \* per thread: the local value of incrementIfNotZero()
  lf_after,        \* per thread: its call in progress started after the value was 0
  lf_ret,          \* the call that returned in the latest step, if one did
  lf_held,         \* per thread: references it holds
  lf_incCalls,     \* incrementIfNotZero calls made
  lf_decTrue,      \* decrement calls that returned true
  lf_wasZero,      \* the stored value has been 0
  \* ---- SeqLock
  value_,          \* value_, word by word
  seq_,            \* seq_
  sl_wpc,          \* the writer: where it is inside write()
  sl_ws1,          \* the writer: the local s1 of write()
  sl_wi,           \* the writer: the word of value_ it stores next
  sl_wsteps,       \* the writer: steps taken in the write() in progress
  sl_writes,       \* write() calls started; the i-th call is write(i)
  sl_rpc,          \* per reader: where it is inside read()
  sl_rs1,          \* per reader: the local s1 of read()
  sl_rv,           \* per reader: the local v of read()
  sl_ri,           \* per reader: the word of value_ it copies next
  sl_view,         \* per reader: the newest value of seq_ and of every word
                   \* of value_ that the reader has seen or acquired
  sl_overlap,      \* per reader: its read() in progress is not ordered after
                   \* the latest write(), or a write() ran during it
  sl_last,         \* per reader: the value its previous read() returned
  sl_ret,          \* the read() that returned in the latest step, if one did
  \* ---- SPSCQueue
  sp_state,        \* outcome of the constructor call
  sp_ndebug,       \* the build defines NDEBUG (assert compiles to nothing)
  sp_concurrent,   \* producer and consumer are two threads (else one thread)
  sp_capacity,     \* capacity_
  sp_ring,         \* ring_: per slot, the bits it holds (0: never written)
  sp_prev,         \* per slot, the bits it held before the latest construction
  sp_live,         \* per slot, it holds a constructed, not yet destroyed T
  sp_head,         \* head_
  sp_cached_head,  \* cached_head_
  sp_tail,         \* tail_
  sp_cached_tail,  \* cached_tail_
  sp_ppc,          \* the producer: where it is inside emplace()
  sp_ptail,        \* the producer: the local tail of emplace()
  sp_pushes,       \* pushes that returned true; the k-th of them pushed k
  sp_cpc,          \* the consumer: where it is inside front() / pop()
  sp_chead,        \* the consumer: the local head of front() / pop()
  sp_ptr,          \* the consumer: slot of the latest non-null front() result
  sp_val,          \* the consumer: what it read through that pointer
  sp_got,          \* the consumer: the values it read and then popped
  sp_csync,        \* tail value up to which the producer's slot writes
                   \* happen before the consumer's accesses
  sp_destroyed,    \* the elements destroyed by ~SPSCQueue, in the order of
                   \* their destruction (0: a slot that held no element)
  sp_allocated,    \* ring buffers obtained from the allocator and not
                   \* given back to it
  sp_ret,          \* the call that returned in the latest step, if one did
  \* ---- MPMCQueue
  mq_state,        \* outcome of the constructor call
  mq_capacity,     \* capacity_
  mq_head,         \* head_
  mq_tail,         \* tail_
  mq_seq,          \* per slot: seq, the newest value stored
  mq_seqlog,       \* per slot: the stores made to seq, oldest first, each
                   \* with what its thread had seen of the queue's atomics
                   \* (empty before the constructor has run)
  mq_view,         \* per thread: the newest value of head_, of tail_ and of
                   \* every slot's seq that the thread is known to have seen
                   \* (empty before the constructor has run)
  mq_storage,      \* per slot: storage (0: never written)
  mq_pc,           \* per thread: where it is inside a call
  mq_pos,          \* per thread: the local pos of emplace() / pop() (0 outside a call)
  mq_arg,          \* per thread: the value its emplace() pushes (0 outside a call)
  mq_out,          \* per thread: the out argument of its pop()
  mq_calls,        \* push calls made
  mq_pushed,       \* the values whose push has returned true
  mq_vpos,         \* per value: the position its push claimed
  mq_pred,         \* per value: the values whose push had returned true
                   \* when its push was invoked
  mq_claimpos,     \* per value: the position claimed by the pop that delivered it
  mq_delivered,    \* per value: how many pops have delivered it
  mq_popsDone,     \* pops that have returned true
  mq_sawEmpty,     \* per thread in pop(): at some instant of the call no
                   \* pushed element was unclaimed
  mq_sawFull,      \* per thread in push(): at some instant of the call the
                   \* queue held capacity_ elements
  mq_destroyed,    \* per slot: the destructor calls made on its storage by
                   \* ~MPMCQueue, in the order they were made
  mq_live,         \* per slot: its storage holds a T whose lifetime has
                   \* begun and not ended
  mq_allocated,    \* ring buffers obtained from the allocator and not
                   \* given back to it
  mq_alone,        \* the thread that took the latest step inside a call and
                   \* the steps of that call it has taken since another
                   \* thread last took a step
  mq_ret           \* the call that returned in the latest step, if one did

wfVars == <<wf_counter, wf_pc, wf_val, wf_after, wf_ret, wf_held, wf_init,
            wf_incCalls, wf_incTrue, wf_decStarted, wf_decTrue, wf_readZero>>
lfVars == <<lf_counter, lf_pc, lf_value, lf_after, lf_ret, lf_held, lf_incCalls,
            lf_decTrue, lf_wasZero>>
slVars == <<value_, seq_, sl_wpc, sl_ws1, sl_wi, sl_wsteps, sl_writes, sl_rpc,
            sl_rs1, sl_rv, sl_ri, sl_view, sl_overlap, sl_last, sl_ret>>
spVars == <<sp_state, sp_ndebug, sp_concurrent, sp_capacity, sp_ring, sp_prev, sp_live,
            sp_head, sp_cached_head, sp_tail, sp_cached_tail, sp_ppc, sp_ptail,
            sp_pushes, sp_cpc, sp_chead, sp_ptr, sp_val, sp_got, sp_csync,
            sp_destroyed, sp_allocated, sp_ret>>
mqVars == <<mq_state, mq_capacity, mq_head, mq_tail, mq_seq, mq_storage, mq_pc,
            mq_pos, mq_arg, mq_out, mq_calls, mq_pushed, mq_vpos, mq_pred,
            mq_claimpos, mq_delivered, mq_popsDone, mq_sawEmpty, mq_sawFull,
            mq_alone, mq_destroyed, mq_live, mq_allocated, mq_seqlog, mq_view,
            mq_ret>>
vars == <<wfVars, wf_lin, lfVars, slVars, spVars, mqVars>>

RECURSIVE SumTo(_, _)
SumTo(f, n) == IF n = 0 THEN 0 ELSE f[n] + SumTo(f, n - 1)

\* the references held by all threads together
TotalHeld(h) == SumTo(h, NumThreads)

\* ways to hand the initial references to the threads (threads are
\* interchangeable: the thread with the smaller number holds at least as many)
InitialHoldings ==
  {h \in [Threads -> 0 .. MaxInitial] :
     /\ TotalHeld(h) \in 1 .. MaxInitial
     /\ \A t \in Threads : t < NumThreads => h[t] >= h[t + 1]}

\* the default constructors: counter_(1), the reference held by thread 1
DefaultHoldings == {[t \in Threads |-> IF t = 1 THEN 1 ELSE 0]}

\* no call returned in the latest step
NoReturn == [t |-> 0, op |-> "none", ret |-> FALSE, after |-> FALSE]

\* thread t returned r from a call of o; a says whether the call started after
\* the counter had been seen at 0
Returned(t, o, r, a) == [t |-> t, op |-> o, ret |-> r, after |-> a]

(***************************************************************************)
(* WaitFreeZeroStickyCounter                                               *)
(***************************************************************************)

\* explicit WaitFreeZeroStickyCounter(uint64_t initial_value): counter_(initial_value)
WaitFree_Init(holdings) ==
  /\ wf_held \in holdings
  /\ wf_init = TotalHeld(wf_held)
  /\ wf_counter = Plain(wf_init)
  /\ wf_pc = [t \in Threads |-> "idle"]
  /\ wf_val = [t \in Threads |-> Plain(0)]
  /\ wf_after = [t \in Threads |-> FALSE]
  /\ wf_ret = NoReturn
  /\ wf_incCalls = 0
  /\ wf_incTrue = 0
  /\ wf_decStarted = 0
  /\ wf_decTrue = 0
  /\ wf_readZero = FALSE

\* thread t starts a call that does not return in its first step
WaitFree_Enter(t, label) ==
  /\ wf_pc' = [wf_pc EXCEPT ![t] = label]
  /\ wf_after' = [wf_after EXCEPT ![t] = wf_readZero]
  /\ wf_ret' = NoReturn

WaitFree_Goto_reloads(t, label) ==
  /\ wf_pc' = [wf_pc EXCEPT ![t] = IF label = "dec_exchange" THEN "dec_load" ELSE label]
  /\ wf_after' = wf_after
  /\ wf_ret' = NoReturn

\* thread t moves on inside its call
WaitFree_Goto(t, label) ==
  /\ wf_pc' = [wf_pc EXCEPT ![t] = label]
  /\ wf_after' = wf_after
  /\ wf_ret' = NoReturn

\* thread t returns r from its call of o, which started with a (wf_readZero then)
WaitFree_Return(t, o, r, a) ==
  /\ wf_pc' = [wf_pc EXCEPT ![t] = "idle"]
  /\ wf_after' = [wf_after EXCEPT ![t] = FALSE]
  /\ wf_ret' = Returned(t, o, r, a)

\* return (counter_.fetch_add(1, relaxed) & zero) == 0;
WaitFree_incrementIfNotZero(t) ==
  /\ wf_pc[t] = "idle"
  /\ wf_incCalls < MaxIncrements
  /\ LET prior == wf_counter
         ok == ~HasZero(prior)
     IN /\ wf_counter' = WordAdd(prior, 1)
        /\ WaitFree_Return(t, "inc", ok, wf_readZero)
        /\ wf_held' = [wf_held EXCEPT ![t] = IF ok THEN @ + 1 ELSE @]
        /\ wf_incTrue' = IF ok THEN wf_incTrue + 1 ELSE wf_incTrue
        /\ wf_incCalls' = wf_incCalls + 1
  /\ UNCHANGED <<wf_val, wf_init, wf_decStarted, wf_decTrue, wf_readZero>>

\* if (counter_.fetch_sub(1, relaxed) == 1) {...} return false;
\* called only for a reference the thread holds
WaitFree_decrement_fetch_sub(t) ==
  /\ wf_pc[t] = "idle"
  /\ wf_held[t] > 0
  /\ LET prior == wf_counter
     IN /\ wf_counter' = WordAdd(prior, -1)
        /\ wf_held' = [wf_held EXCEPT ![t] = @ - 1]
        /\ wf_decStarted' = wf_decStarted + 1
        /\ IF prior = Plain(1)
             THEN WaitFree_Enter(t, "dec_load")
             ELSE WaitFree_Return(t, "dec", FALSE, wf_readZero)
  /\ UNCHANGED <<wf_val, wf_init, wf_incCalls, wf_incTrue, wf_decTrue, wf_readZero>>

\* auto val = counter_.load(relaxed);
WaitFree_decrement_load(t) ==
  /\ wf_pc[t] = "dec_load"
  /\ wf_val' = [wf_val EXCEPT ![t] = wf_counter]
  /\ WaitFree_Goto(t, "dec_cas")
  /\ UNCHANGED <<wf_counter, wf_held, wf_init, wf_incCalls, wf_incTrue,
                 wf_decStarted, wf_decTrue, wf_readZero>>

\* if (counter_.compare_exchange_strong(val, zero)) return true;
\* else if ((val & helped) && ...) ... ; return false;
WaitFree_decrement_cas(t) ==
  /\ wf_pc[t] = "dec_cas"
  /\ IF wf_counter = wf_val[t]
       THEN /\ wf_counter' = zero
            /\ wf_val' = [wf_val EXCEPT ![t] = Plain(0)]
            /\ WaitFree_Return(t, "dec", TRUE, wf_after[t])
            /\ wf_decTrue' = wf_decTrue + 1
       ELSE /\ wf_counter' = wf_counter
            /\ wf_decTrue' = wf_decTrue
            /\ IF HasHelped(wf_counter)
                 THEN /\ wf_val' = [wf_val EXCEPT ![t] = wf_counter]
                      /\ WaitFree_Goto(t, "dec_exchange")
                 ELSE /\ wf_val' = [wf_val EXCEPT ![t] = Plain(0)]
                      /\ WaitFree_Return(t, "dec", FALSE, wf_after[t])
  /\ UNCHANGED <<wf_held, wf_init, wf_incCalls, wf_incTrue, wf_decStarted,
                 wf_readZero>>

\* counter_.exchange(zero, relaxed) & helped
WaitFree_decrement_exchange(t) ==
  /\ wf_pc[t] = "dec_exchange"
  /\ LET prior == wf_counter
     IN /\ wf_counter' = zero
        /\ wf_val' = [wf_val EXCEPT ![t] = Plain(0)]
        /\ WaitFree_Return(t, "dec", HasHelped(prior), wf_after[t])
        /\ wf_decTrue' = IF HasHelped(prior) THEN wf_decTrue + 1 ELSE wf_decTrue
  /\ UNCHANGED <<wf_held, wf_init, wf_incCalls, wf_incTrue, wf_decStarted,
                 wf_readZero>>

\* return val & zero ? 0 : val;
WaitFree_read_result(v) == IF HasZero(v) THEN Plain(0) ELSE v

\* auto val = counter_.load(relaxed); if (val == 0 && ...) ... else return ...
WaitFree_read_load(t) ==
  /\ wf_pc[t] = "idle"
  /\ LET v == wf_counter
     IN IF v = Plain(0)
          THEN /\ wf_val' = [wf_val EXCEPT ![t] = v]
               /\ WaitFree_Enter(t, "read_cas")
               /\ wf_readZero' = wf_readZero
          ELSE /\ wf_val' = wf_val
               /\ WaitFree_Return(t, "read", WaitFree_read_result(v), wf_readZero)
               /\ wf_readZero' = (wf_readZero \/ WaitFree_read_result(v) = Plain(0))
  /\ UNCHANGED <<wf_counter, wf_held, wf_init, wf_incCalls, wf_incTrue,
                 wf_decStarted, wf_decTrue>>

\* counter_.compare_exchange_strong(val, zero | helped) with val == 0
WaitFree_read_cas(t) ==
  /\ wf_pc[t] = "read_cas"
  /\ wf_val' = [wf_val EXCEPT ![t] = Plain(0)]
  /\ IF wf_counter = wf_val[t]
       THEN /\ wf_counter' = zero_or_helped
            /\ WaitFree_Return(t, "read", Plain(0), wf_after[t])
            /\ wf_readZero' = TRUE
       ELSE /\ wf_counter' = wf_counter
            /\ WaitFree_Return(t, "read", WaitFree_read_result(wf_counter), wf_after[t])
            /\ wf_readZero' = (wf_readZero \/ WaitFree_read_result(wf_counter) = Plain(0))
  /\ UNCHANGED <<wf_held, wf_init, wf_incCalls, wf_incTrue, wf_decStarted,
                 wf_decTrue>>

\* one step of thread t on the wait-free counter
WaitFree_Step(t) ==
  \/ WaitFree_incrementIfNotZero(t)
  \/ WaitFree_decrement_fetch_sub(t)
  \/ WaitFree_decrement_load(t)
  \/ WaitFree_decrement_cas(t)
  \/ WaitFree_decrement_exchange(t)
  \/ WaitFree_read_load(t)
  \/ WaitFree_read_cas(t)

(***************************************************************************)
(* LockFreeZeroStickyCounter                                               *)
(***************************************************************************)

\* explicit LockFreeZeroStickyCounter(uint64_t initial_value): counter_(initial_value)
LockFree_Init(holdings) ==
  /\ lf_held \in holdings
  /\ lf_counter = Plain(TotalHeld(lf_held))
  /\ lf_pc = [t \in Threads |-> "idle"]
  /\ lf_value = [t \in Threads |-> Plain(0)]
  /\ lf_after = [t \in Threads |-> FALSE]
  /\ lf_ret = NoReturn
  /\ lf_incCalls = 0
  /\ lf_decTrue = 0
  /\ lf_wasZero = FALSE

\* thread t returns r from its call of o, which started with a (lf_wasZero then)
LockFree_Return(t, o, r, a) ==
  /\ lf_pc' = [lf_pc EXCEPT ![t] = "idle"]
  /\ lf_after' = [lf_after EXCEPT ![t] = FALSE]
  /\ lf_value' = [lf_value EXCEPT ![t] = Plain(0)]
  /\ lf_ret' = Returned(t, o, r, a)

\* mutant: the loop does not test the value for 0
LockFree_loop_always(v) == TRUE

\* while (value != 0): the loop test of incrementIfNotZero on the local value
LockFree_loop(v) == v # Plain(0)

\* auto value = counter_.load(relaxed); while (value != 0) {...} return false;
LockFree_incrementIfNotZero_load(t) ==
  /\ lf_pc[t] = "idle"
  /\ lf_incCalls < MaxIncrements
  /\ lf_incCalls' = lf_incCalls + 1
  /\ IF LockFree_loop(lf_counter)
       THEN /\ lf_value' = [lf_value EXCEPT ![t] = lf_counter]
            /\ lf_pc' = [lf_pc EXCEPT ![t] = "inc_cas"]
            /\ lf_after' = [lf_after EXCEPT ![t] = lf_wasZero]
            /\ lf_ret' = NoReturn
       ELSE LockFree_Return(t, "inc", FALSE, lf_wasZero)
  /\ UNCHANGED <<lf_counter, lf_held, lf_decTrue, lf_wasZero>>

\* if (counter_.compare_exchange_weak(value, value + 1, relaxed, relaxed)) return true;
LockFree_incrementIfNotZero_cas(t) ==
  /\ lf_pc[t] = "inc_cas"
  /\ \/ /\ lf_counter = lf_value[t]
        /\ lf_counter' = WordAdd(lf_value[t], 1)
        /\ LockFree_Return(t, "inc", TRUE, lf_after[t])
        /\ lf_held' = [lf_held EXCEPT ![t] = @ + 1]
        /\ lf_wasZero' = (lf_wasZero \/ WordAdd(lf_value[t], 1) = Plain(0))
     \/ \* the CAS fails (the weak CAS may fail spuriously): value is reloaded
        /\ lf_counter' = lf_counter
        /\ lf_held' = lf_held
        /\ IF LockFree_loop(lf_counter)
             THEN /\ lf_value' = [lf_value EXCEPT ![t] = lf_counter]
                  /\ lf_ret' = NoReturn
                  /\ UNCHANGED <<lf_pc, lf_after>>
             ELSE LockFree_Return(t, "inc", FALSE, lf_after[t])
        /\ lf_wasZero' = lf_wasZero
  /\ UNCHANGED <<lf_incCalls, lf_decTrue>>

\* return counter_.fetch_sub(1, relaxed) == 1;
\* called only for a reference the thread holds
LockFree_decrement(t) ==
  /\ lf_pc[t] = "idle"
  /\ lf_held[t] > 0
  /\ LET prior == lf_counter
         r == (prior = Plain(1))
     IN /\ lf_counter' = WordAdd(prior, -1)
        /\ lf_held' = [lf_held EXCEPT ![t] = @ - 1]
        /\ LockFree_Return(t, "dec", r, lf_wasZero)
        /\ lf_decTrue' = IF r THEN lf_decTrue + 1 ELSE lf_decTrue
        /\ lf_wasZero' = (lf_wasZero \/ WordAdd(prior, -1) = Plain(0))
  /\ UNCHANGED <<lf_incCalls>>

\* uint64_t read() { return counter_.load(relaxed); }
LockFree_read(t) ==
  /\ lf_pc[t] = "idle"
  /\ LockFree_Return(t, "read", lf_counter, lf_wasZero)
  /\ UNCHANGED <<lf_counter, lf_held, lf_incCalls, lf_decTrue, lf_wasZero>>

\* one step of thread t on the lock-free counter
LockFree_Step(t) ==
  \/ LockFree_incrementIfNotZero_load(t)
  \/ LockFree_incrementIfNotZero_cas(t)
  \/ LockFree_decrement(t)
  \/ LockFree_read(t)

(***************************************************************************)
(* SeqLock<T>, one writer and NumReaders readers.                          *)
(*                                                                         *)
(* T is a struct of NumParts words; value_ = value and T v = value_ copy   *)
(* it word by word, one step each, so that a copy racing with the other    *)
(* side can see any mixture of old and new words.  The writer calls        *)
(* write(1), write(2), ... as in TEST(SeqLock, ConcurrentReadWrite); the   *)
(* value i has i in every word, and T() has 0 in every word.               *)
(*                                                                         *)
(* Memory.  seq_ and value_ hold the newest value stored, and a store      *)
(* takes effect at its step.  Only the writer stores, so seq_ has held     *)
(* every value in 0 .. seq_ and word p every value in 0 .. value_[p], in   *)
(* that order.  write() orders its first store of seq_ and its stores of   *)
(* value_ by atomic_signal_fence only, and read() its copy of value_ and   *)
(* its second load of seq_ likewise: the fence keeps the compiler from     *)
(* exchanging them and emits no instruction, so another thread can see     *)
(* the stores in another order and the loads can be satisfied in another   *)
(* order.  Both are modelled on the reader's side: a load need not return  *)
(* the newest value.  It returns a value the variable has held that is     *)
(* not older than what the reader has seen of that variable (sl_view; a    *)
(* thread never reads one variable backwards).  The acquiring load of s1   *)
(* that reads a value stored by seq_.store(s1 + 2, release) makes the      *)
(* words written before that store visible too.  The copy of value_ is a   *)
(* data race with the writer's stores; its outcomes are those of plain     *)
(* word loads.                                                             *)
(***************************************************************************)

Max(a, b) == IF a >= b THEN a ELSE b

\* the value i of type T
TVal(i) == [p \in Parts |-> i]

\* no read() returned in the latest step
NoRead == [r |-> 0, v |-> TVal(0), prev |-> TVal(0), overlap |-> FALSE]

\* SeqLock() : value_(T()), seq_(0)
SeqLock_Init ==
  /\ value_ = TVal(0)
  /\ seq_ = 0
  /\ sl_wpc = "idle"
  /\ sl_ws1 = 0
  /\ sl_wi = 1
  /\ sl_wsteps = 0
  /\ sl_writes = 0
  /\ sl_rpc = [r \in Readers |-> "idle"]
  /\ sl_rs1 = [r \in Readers |-> 0]
  /\ sl_rv = [r \in Readers |-> TVal(0)]
  /\ sl_ri = [r \in Readers |-> 1]
  /\ sl_view = [r \in Readers |-> [seq |-> 0, val |-> TVal(0)]]
  /\ sl_overlap = [r \in Readers |-> FALSE]
  /\ sl_last = [r \in Readers |-> TVal(0)]
  /\ sl_ret = NoRead

\* mutant: the copy takes the first word only (a wrong size in the copy)
SeqLock_copy_value_first_word(v, mem, i) == [v EXCEPT ![1] = mem[1]]

\* mutant: the second store repeats s1 + 1, the sequence stays odd
SeqLock_published_odd(s1) == s1 + 1

\* value_ = value: the store of word i
SeqLock_store_value(mem, value, i) == [mem EXCEPT ![i] = value[i]]

\* T v = value_: the copy of word i
SeqLock_copy_value(v, mem, i) == [v EXCEPT ![i] = mem[i]]

\* if (s1 == s2 && s1 % 2 == 0)
SeqLock_valid(s1, s2) == s1 = s2 /\ s1 % 2 = 0

\* mutant: the first store leaves the sequence as it was
SeqLock_writing_unchanged(s1) == s1

\* seq_.store(s1 + 1, relaxed): the sequence while the value is being written
SeqLock_writing(s1) == s1 + 1

\* seq_.store(s1 + 2, release): the sequence that publishes the value
SeqLock_published(s1) == s1 + 2

\* a step of the writer overlaps every read() in progress
SeqLock_writer_step ==
  /\ sl_overlap' = [r \in Readers |-> sl_overlap[r] \/ sl_rpc[r] # "idle"]
  /\ sl_wsteps' = sl_wsteps + 1
  /\ sl_ret' = NoRead
  /\ UNCHANGED <<sl_rpc, sl_rs1, sl_rv, sl_ri, sl_view, sl_last>>

\* write(value): auto s1 = seq_.load(relaxed);
SeqLock_write_load ==
  /\ sl_wpc = "idle"
  /\ sl_writes < MaxWrites
  /\ sl_writes' = sl_writes + 1
  /\ sl_ws1' = seq_
  /\ sl_wpc' = "store_odd"
  /\ SeqLock_writer_step
  /\ UNCHANGED <<value_, seq_, sl_wi>>

\* mutant: the writer waits until no reader is copying value_
SeqLock_write_store_odd_waits ==
  /\ sl_wpc = "store_odd"
  /\ \A r \in Readers : sl_rpc[r] # "copy"
  /\ seq_' = SeqLock_writing(sl_ws1)
  /\ sl_wpc' = "value"
  /\ sl_wi' = 1
  /\ SeqLock_writer_step
  /\ UNCHANGED <<value_, sl_ws1, sl_writes>>

\* seq_.store(s1 + 1, relaxed);  The store takes its place in the order of
\* the values of seq_ at this step.  When a reader sees it is decided at the
\* reader's loads: nothing makes it visible before the stores of value_
\* that follow it
SeqLock_write_store_odd ==
  /\ sl_wpc = "store_odd"
  /\ seq_' = SeqLock_writing(sl_ws1)
  /\ sl_wpc' = "value"
  /\ sl_wi' = 1
  /\ SeqLock_writer_step
  /\ UNCHANGED <<value_, sl_ws1, sl_writes>>

\* value_ = value; (one word).  A plain store: a reader can see the word
\* while it still sees an older value of seq_, and can still see the old
\* word after this step
SeqLock_write_value ==
  /\ sl_wpc = "value"
  /\ value_' = SeqLock_store_value(value_, TVal(sl_writes), sl_wi)
  /\ IF sl_wi = NumParts
       THEN sl_wpc' = "store_even" /\ sl_wi' = 1
       ELSE sl_wpc' = sl_wpc /\ sl_wi' = sl_wi + 1
  /\ SeqLock_writer_step
  /\ UNCHANGED <<seq_, sl_ws1, sl_writes>>

\* seq_.store(s1 + 2, release); and write() returns.  A reader whose
\* acquiring load reads this value sees every word of this write()
SeqLock_write_store_even ==
  /\ sl_wpc = "store_even"
  /\ seq_' = SeqLock_published(sl_ws1)
  /\ sl_wpc' = "idle"
  /\ sl_overlap' = [r \in Readers |-> sl_overlap[r] \/ sl_rpc[r] # "idle"]
  /\ sl_wsteps' = 0
  /\ sl_ret' = NoRead
  /\ UNCHANGED <<value_, sl_ws1, sl_wi, sl_writes, sl_rpc, sl_rs1, sl_rv, sl_ri,
                 sl_view, sl_last>>

\* the steps of one write() call: the load, the two stores of seq_ and one
\* store for every word of value_
SeqLock_write_steps == NumParts + 3

\* one step of the writer
SeqLock_write ==
  \/ SeqLock_write_load
  \/ SeqLock_write_store_odd
  \/ SeqLock_write_value
  \/ SeqLock_write_store_even

\* read(): auto s1 = seq_.load(acquire); first in the call, or after a yield.
\* The load returns a value of seq_ not older than the reader has seen.  An
\* even s1 was stored by the release store that ends write(s1 / 2): reading
\* it makes the words of that write visible.  An odd s1 was stored relaxed.
\* A read() is ordered after the latest write() when the writer is idle and
\* s1 is the value that write() stored last.
SeqLock_read_load1(r) ==
  /\ sl_rpc[r] \in {"idle", "retry"}
  /\ \E s1 \in sl_view[r].seq .. seq_ :
       /\ sl_rs1' = [sl_rs1 EXCEPT ![r] = s1]
       /\ sl_view' = [sl_view EXCEPT ![r] =
            [seq |-> s1,
             val |-> IF s1 % 2 = 0
                       THEN [p \in Parts |-> Max(@.val[p], s1 \div 2)]
                       ELSE @.val]]
       /\ sl_overlap' = [sl_overlap EXCEPT
                           ![r] = IF sl_rpc[r] = "idle"
                                    THEN sl_wpc # "idle" \/ s1 # seq_
                                    ELSE @]
  /\ sl_rpc' = [sl_rpc EXCEPT ![r] = "copy"]
  /\ sl_ri' = [sl_ri EXCEPT ![r] = 1]
  /\ sl_ret' = NoRead
  /\ UNCHANGED <<value_, seq_, sl_wpc, sl_ws1, sl_wi, sl_wsteps, sl_writes, sl_rv,
                 sl_last>>

\* T v = value_; (one word).  The plain load returns a value of the word not
\* older than the reader has seen of it, not always the newest: nothing
\* orders it with the writer's stores beyond what s1 acquired
SeqLock_read_copy(r) ==
  /\ sl_rpc[r] = "copy"
  /\ \E word \in sl_view[r].val[sl_ri[r]] .. value_[sl_ri[r]] :
       /\ sl_rv' = [sl_rv EXCEPT ![r] =
            SeqLock_copy_value(@, [value_ EXCEPT ![sl_ri[r]] = word], sl_ri[r])]
       /\ sl_view' = [sl_view EXCEPT ![r].val[sl_ri[r]] = word]
  /\ IF sl_ri[r] = NumParts
       THEN sl_rpc' = [sl_rpc EXCEPT ![r] = "load2"] /\ sl_ri' = [sl_ri EXCEPT ![r] = 1]
       ELSE sl_rpc' = sl_rpc /\ sl_ri' = [sl_ri EXCEPT ![r] = @ + 1]
  /\ sl_ret' = NoRead
  /\ UNCHANGED <<value_, seq_, sl_wpc, sl_ws1, sl_wi, sl_wsteps, sl_writes, sl_rs1,
                 sl_overlap, sl_last>>

\* auto s2 = seq_.load(relaxed); if (s1 == s2 && s1 % 2 == 0) return v; yield();
\* The relaxed load returns a value of seq_ not older than s1; only the
\* compiler is kept from moving it before the copy of value_, so it need not
\* return the value seq_ has when the copy ends
SeqLock_read_load2(r) ==
  /\ sl_rpc[r] = "load2"
  /\ \E s2 \in sl_view[r].seq .. seq_ :
       /\ sl_view' = [sl_view EXCEPT ![r].seq = s2]
       /\ IF SeqLock_valid(sl_rs1[r], s2)
            THEN /\ sl_rpc' = [sl_rpc EXCEPT ![r] = "idle"]
                 /\ sl_ret' = [r |-> r, v |-> sl_rv[r], prev |-> sl_last[r],
                               overlap |-> sl_overlap[r]]
                 /\ sl_last' = [sl_last EXCEPT ![r] = sl_rv[r]]
                 /\ sl_overlap' = [sl_overlap EXCEPT ![r] = FALSE]
            ELSE /\ sl_rpc' = [sl_rpc EXCEPT ![r] = "retry"]
                 /\ sl_ret' = NoRead
                 /\ UNCHANGED <<sl_last, sl_overlap>>
  /\ sl_rv' = [sl_rv EXCEPT ![r] = TVal(0)]
  /\ sl_rs1' = [sl_rs1 EXCEPT ![r] = 0]
  /\ UNCHANGED <<value_, seq_, sl_wpc, sl_ws1, sl_wi, sl_wsteps, sl_writes, sl_ri>>

\* one step of reader r
SeqLock_read(r) ==
  \/ SeqLock_read_load1(r)
  \/ SeqLock_read_copy(r)
  \/ SeqLock_read_load2(r)

(***************************************************************************)
(* The atomic sticky counter and the linearizability monitor.              *)
(*                                                                         *)
(* The atomic counter is LockFreeZeroStickyCounter with every call taken   *)
(* as one indivisible step.  wf_lin is the set of configurations the       *)
(* atomic counter can be in given the calls and returns seen so far on the *)
(* wait-free counter: its value, and for every thread whether its call is  *)
(* still pending or has taken effect, and with which result.  The history  *)
(* seen so far is linearizable iff wf_lin is not empty.                    *)
(***************************************************************************)

\* a bool result as a word, so that all results are of one kind
Result(b) == IF b THEN Plain(1) ELSE Plain(0)

\* LockFreeZeroStickyCounter::incrementIfNotZero as one step: <<new value, result>>
Atomic_incrementIfNotZero(v) ==
  IF v # Plain(0) THEN <<WordAdd(v, 1), Result(TRUE)>> ELSE <<v, Result(FALSE)>>

\* LockFreeZeroStickyCounter::decrement as one step: <<new value, result>>
Atomic_decrement(v) == <<WordAdd(v, -1), Result(v = Plain(1))>>

\* LockFreeZeroStickyCounter::read as one step: <<new value, result>>
Atomic_read(v) == <<v, v>>

Atomic_apply(o, v) ==
  CASE o = "inc" -> Atomic_incrementIfNotZero(v)
    [] o = "dec" -> Atomic_decrement(v)
    [] OTHER -> Atomic_read(v)

LinIdle == [op |-> "none", lin |-> FALSE, ret |-> Plain(0)]

LinPending(o) == [op |-> o, lin |-> FALSE, ret |-> Plain(0)]

\* the pending call of thread t takes effect in configuration c
Linearize(c, t) ==
  LET r == Atomic_apply(c.st[t].op, c.v)
  IN [v |-> r[1], st |-> [c.st EXCEPT ![t] = [@ EXCEPT !.lin = TRUE, !.ret = r[2]]]]

\* every configuration reachable by letting pending calls take effect
RECURSIVE LinClosure(_)
LinClosure(C) ==
  LET Pending(c) == {u \in Threads : c.st[u].op # "none" /\ ~c.st[u].lin}
      more == C \cup UNION {{Linearize(c, t) : t \in Pending(c)} : c \in C}
  IN IF more = C THEN C ELSE LinClosure(more)

\* thread t calls o
LinInvoke(C, t, o) == {[c EXCEPT !.st[t] = LinPending(o)] : c \in C}

\* thread t returns r: its call has taken effect, with that result
LinRespond(C, t, r) ==
  {[c EXCEPT !.st[t] = LinIdle] : c \in {d \in C : d.st[t].lin /\ d.st[t].ret = r}}

LinInit(n) == {[v |-> Plain(n), st |-> [t \in Threads |-> LinIdle]]}

\* the call thread t is in after a step (the call that returned, if one did)
WaitFree_op(t) ==
  IF wf_ret'.op # "none" THEN wf_ret'.op
  ELSE IF wf_pc'[t] = "read_cas" THEN "read" ELSE "dec"

\* the result a call returned, as a word
WaitFree_result(o, r) == IF o = "read" THEN r ELSE Result(r)

\* the monitor after a step of thread t
LinStep(t) ==
  LET invoked == IF wf_pc[t] = "idle" THEN LinInvoke(wf_lin, t, WaitFree_op(t)) ELSE wf_lin
      closed == LinClosure(invoked)
  IN IF wf_ret'.op # "none"
       THEN LinRespond(closed, t, WaitFree_result(wf_ret'.op, wf_ret'.ret))
       ELSE closed

(***************************************************************************)
(* SPSCQueue<int>, one producer and one consumer.                          *)
(*                                                                         *)
(* The producer pushes consecutive values and repeats a push that returned *)
(* false, the consumer calls front(), reads through the pointer and calls  *)
(* pop(), as in TEST(SPSCQueue, ProducerConsumerSum); the values are       *)
(* numbered from 1 here, 0 being the content of memory never written.      *)
(* A store of head_ or tail_ takes effect at its step.  A thread's load of *)
(* its own counter returns the newest value; its relaxed load of the       *)
(* other thread's counter returns a value the counter has held, not older  *)
(* than the one its previous load returned, and not always the newest.     *)
(* The ring slots are plain memory: a read of a slot by the consumer that  *)
(* no release/acquire pair orders after the producer's construction races  *)
(* with it and may return the bits the slot held before.                   *)
(***************************************************************************)
Slots == 0 .. MaxCapacity - 1

\* the uint64_t value 2^64 - 1, which 0 - 1 wraps to
AllOnes == -1

\* uint64_t x - 1
Minus1(x) == IF x = 0 THEN AllOnes ELSE x - 1

RECURSIVE BitAndNat(_, _)
BitAndNat(a, b) ==
  IF a = 0 \/ b = 0 THEN 0
  ELSE (a % 2) * (b % 2) + 2 * BitAndNat(a \div 2, b \div 2)

\* uint64_t a & m
BitAnd(a, m) == IF m = AllOnes THEN a ELSE BitAndNat(a, m)

NoCall == [op |-> "none", ret |-> FALSE]

Call(o, r) == [op |-> o, ret |-> r]

NoSlot == -1

\* the state before the constructor runs
SPSC_Init ==
  /\ sp_state = "unconstructed"
  /\ sp_ndebug = FALSE
  /\ sp_concurrent = TRUE
  /\ sp_capacity = 0
  /\ sp_ring = [i \in Slots |-> 0]
  /\ sp_prev = [i \in Slots |-> 0]
  /\ sp_live = [i \in Slots |-> FALSE]
  /\ sp_head = 0
  /\ sp_cached_head = 0
  /\ sp_tail = 0
  /\ sp_cached_tail = 0
  /\ sp_ppc = "idle"
  /\ sp_ptail = 0
  /\ sp_pushes = 0
  /\ sp_cpc = "idle"
  /\ sp_chead = 0
  /\ sp_ptr = NoSlot
  /\ sp_val = 0
  /\ sp_got = <<>>
  /\ sp_csync = 0
  /\ sp_destroyed = <<>>
  /\ sp_allocated = 0
  /\ sp_ret = NoCall

\* capacity_ & (capacity_ - 1)
SPSC_not_power_of_two(capacity) == BitAnd(capacity, Minus1(capacity)) # 0

\* the constructor: assert(capacity_ > 0) exists in builds without NDEBUG only
SPSC_constructor(capacity, ndebug) ==
  IF ~ndebug /\ ~(capacity > 0) THEN "aborted"
  ELSE IF SPSC_not_power_of_two(capacity) THEN "invalid_argument"
  ELSE "constructed"

\* ring_{allocate(*this, capacity_)} is a member initializer: the buffer is
\* obtained before the body tests capacity_, and the body has no deallocate
SPSC_construct(capacity, ndebug, concurrent) ==
  /\ sp_state = "unconstructed"
  /\ sp_allocated' = sp_allocated + 1
  /\ sp_state' = SPSC_constructor(capacity, ndebug)
  /\ sp_capacity' = capacity
  /\ sp_ndebug' = ndebug
  /\ sp_concurrent' = concurrent
  /\ sp_ret' = Call("ctor", sp_state' = "constructed")
  /\ UNCHANGED <<sp_ring, sp_prev, sp_live, sp_head, sp_cached_head, sp_tail,
                 sp_cached_tail, sp_ppc, sp_ptail, sp_pushes, sp_cpc, sp_chead,
                 sp_ptr, sp_val, sp_got, sp_csync, sp_destroyed>>

SPSC_size(head, tail) == tail - head

SPSC_full_one_more(head, tail) == tail - head = sp_capacity + 1

SPSC_full(head, tail) == SPSC_size(head, tail) = sp_capacity

SPSC_empty_never(head, tail) == FALSE

SPSC_empty(head, tail) == SPSC_size(head, tail) = 0

SPSC_index_zero(pos) == 0

SPSC_index(pos) == BitAnd(pos, Minus1(sp_capacity))

\* a load with this memory order synchronizes with the release store it reads
Acquires(order) == order \in {"acquire", "acq_rel", "seq_cst"}

\* tail_.load(std::memory_order_relaxed) in front()
SPSC_front_tail_order == "relaxed"

\* a producer call may start or go on
SPSC_producer_runs ==
  /\ sp_state = "constructed"
  /\ sp_concurrent \/ sp_cpc \in {"idle", "holding", "read"}

\* a consumer call may start or go on
SPSC_consumer_runs ==
  /\ sp_state = "constructed"
  /\ sp_concurrent \/ sp_ppc = "idle"

\* emplace: auto tail = tail_.load(acquire); if (full(cached_head_, tail))
SPSC_emplace_load_tail ==
  /\ SPSC_producer_runs
  /\ sp_ppc = "idle"
  /\ sp_pushes < MaxPushes
  /\ sp_ptail' = sp_tail
  /\ sp_ppc' = IF SPSC_full(sp_cached_head, sp_tail) THEN "load_head" ELSE "construct"
  /\ sp_ret' = NoCall
  /\ UNCHANGED <<sp_allocated, sp_destroyed, sp_state, sp_ndebug, sp_concurrent, sp_capacity, sp_ring, sp_prev, sp_live,
                 sp_head, sp_cached_head, sp_tail, sp_cached_tail, sp_pushes,
                 sp_cpc, sp_chead, sp_ptr, sp_val, sp_got, sp_csync>>

\* the values head_.load(relaxed) in emplace can return. The consumer stores
\* head_ with release and the producer executes no seq_cst operation between
\* its own store of tail_ and this load, so the load need not return the
\* newest value: it returns a value head_ has held that is not older than
\* the one the producer's previous load returned (kept in cached_head_).
\* With a single thread every load returns the newest value.
SPSC_head_loaded ==
  IF sp_concurrent THEN sp_cached_head .. sp_head ELSE {sp_head}

\* the values tail_.load(relaxed) in front() can return, likewise
SPSC_tail_loaded ==
  IF sp_concurrent THEN sp_cached_tail .. sp_tail ELSE {sp_tail}

\* mutant: a push that finds the queue full drops the oldest element
SPSC_emplace_load_head_drops_oldest ==
  /\ SPSC_producer_runs
  /\ sp_ppc = "load_head"
  /\ \E head \in SPSC_head_loaded :
       /\ sp_cached_head' = head
       /\ IF SPSC_full(head, sp_ptail)
            THEN sp_ppc' = "idle" /\ sp_ret' = Call("push", FALSE) /\ sp_head' = sp_head + 1
            ELSE sp_ppc' = "construct" /\ sp_ret' = NoCall /\ UNCHANGED sp_head
  /\ UNCHANGED <<sp_allocated, sp_destroyed, sp_state, sp_ndebug, sp_concurrent, sp_capacity, sp_ring, sp_prev, sp_live,
                 sp_tail, sp_cached_tail, sp_ptail, sp_pushes,
                 sp_cpc, sp_chead, sp_ptr, sp_val, sp_got, sp_csync>>

\* emplace: cached_head_ = head_.load(relaxed); if (full(...)) return false
SPSC_emplace_load_head ==
  /\ SPSC_producer_runs
  /\ sp_ppc = "load_head"
  /\ \E head \in SPSC_head_loaded :
       /\ sp_cached_head' = head
       /\ IF SPSC_full(head, sp_ptail)
            THEN sp_ppc' = "idle" /\ sp_ret' = Call("push", FALSE)
            ELSE sp_ppc' = "construct" /\ sp_ret' = NoCall
  /\ UNCHANGED <<sp_allocated, sp_destroyed, sp_state, sp_ndebug, sp_concurrent, sp_capacity, sp_ring, sp_prev, sp_live,
                 sp_head, sp_tail, sp_cached_tail, sp_ptail, sp_pushes,
                 sp_cpc, sp_chead, sp_ptr, sp_val, sp_got, sp_csync>>

\* emplace: new (&ring_[index(tail)]) T(args...)
SPSC_emplace_construct ==
  /\ SPSC_producer_runs
  /\ sp_ppc = "construct"
  /\ LET i == SPSC_index(sp_ptail) IN
       /\ sp_prev' = [sp_prev EXCEPT ![i] = sp_ring[i]]
       /\ sp_ring' = [sp_ring EXCEPT ![i] = sp_pushes + 1]
       /\ sp_live' = [sp_live EXCEPT ![i] = TRUE]
  /\ sp_ppc' = "store_tail"
  /\ sp_ret' = NoCall
  /\ UNCHANGED <<sp_allocated, sp_destroyed, sp_state, sp_ndebug, sp_concurrent, sp_capacity, sp_head, sp_cached_head,
                 sp_tail, sp_cached_tail, sp_ptail, sp_pushes,
                 sp_cpc, sp_chead, sp_ptr, sp_val, sp_got, sp_csync>>

\* emplace: tail_.store(tail + 1, release); return true
SPSC_emplace_store_tail ==
  /\ SPSC_producer_runs
  /\ sp_ppc = "store_tail"
  /\ sp_tail' = sp_ptail + 1
  /\ sp_pushes' = sp_pushes + 1
  /\ sp_ppc' = "idle"
  /\ sp_ret' = Call("push", TRUE)
  /\ UNCHANGED <<sp_allocated, sp_destroyed, sp_state, sp_ndebug, sp_concurrent, sp_capacity, sp_ring, sp_prev, sp_live,
                 sp_head, sp_cached_head, sp_cached_tail, sp_ptail,
                 sp_cpc, sp_chead, sp_ptr, sp_val, sp_got, sp_csync>>

SPSC_emplace ==
  \/ SPSC_emplace_load_tail
  \/ SPSC_emplace_load_head
  \/ SPSC_emplace_construct
  \/ SPSC_emplace_store_tail

\* what a read of the slot of position pos by the consumer can return
SPSC_visible(pos) ==
  LET i == SPSC_index(pos) IN
    IF ~sp_concurrent \/ pos < sp_csync THEN {sp_ring[i]}
    ELSE {sp_ring[i], sp_prev[i]}

\* front: auto head = head_.load(acquire); if (empty(head, cached_tail_))
SPSC_front_load_head ==
  /\ SPSC_consumer_runs
  /\ sp_cpc \in {"idle", "holding", "read"}
  /\ sp_chead' = sp_head
  /\ IF SPSC_empty(sp_head, sp_cached_tail)
       THEN sp_cpc' = "front_load_tail" /\ sp_ret' = NoCall /\ UNCHANGED sp_ptr
       ELSE /\ sp_cpc' = "holding"
            /\ sp_ptr' = SPSC_index(sp_head)
            /\ sp_ret' = Call("front", TRUE)
  /\ UNCHANGED <<sp_allocated, sp_destroyed, sp_state, sp_ndebug, sp_concurrent, sp_capacity, sp_ring, sp_prev,
                 sp_live, sp_head, sp_cached_head, sp_tail, sp_cached_tail,
                 sp_ppc, sp_ptail, sp_pushes, sp_val, sp_got, sp_csync>>

\* front: cached_tail_ = tail_.load(relaxed); if (empty(...)) return nullptr;
\* return &ring_[index(head)]
SPSC_front_load_tail ==
  /\ SPSC_consumer_runs
  /\ sp_cpc = "front_load_tail"
  /\ \E tail \in SPSC_tail_loaded :
       /\ sp_cached_tail' = tail
       /\ sp_csync' = IF Acquires(SPSC_front_tail_order) THEN tail ELSE sp_csync
       /\ IF SPSC_empty(sp_chead, tail)
            THEN sp_cpc' = "idle" /\ sp_ptr' = NoSlot /\ sp_ret' = Call("front", FALSE)
            ELSE /\ sp_cpc' = "holding"
                 /\ sp_ptr' = SPSC_index(sp_chead)
                 /\ sp_ret' = Call("front", TRUE)
  /\ UNCHANGED <<sp_allocated, sp_destroyed, sp_state, sp_ndebug, sp_concurrent, sp_capacity, sp_ring, sp_prev,
                 sp_live, sp_head, sp_cached_head, sp_tail, sp_ppc, sp_ptail,
                 sp_pushes, sp_chead, sp_val, sp_got>>

\* the caller reads the element through the pointer front() returned
SPSC_read ==
  /\ SPSC_consumer_runs
  /\ sp_cpc = "holding"
  /\ sp_val' \in SPSC_visible(sp_chead)
  /\ sp_cpc' = "read"
  /\ sp_ret' = NoCall
  /\ UNCHANGED <<sp_allocated, sp_destroyed, sp_state, sp_ndebug, sp_concurrent, sp_capacity, sp_ring, sp_prev,
                 sp_live, sp_head, sp_cached_head, sp_tail, sp_cached_tail,
                 sp_ppc, sp_ptail, sp_pushes, sp_chead, sp_ptr, sp_got, sp_csync>>

\* pop: auto head = head_.load(acquire); assert(!empty(head, cached_tail_))
SPSC_pop_load_head ==
  /\ SPSC_consumer_runs
  /\ sp_cpc = "read"
  /\ sp_chead' = sp_head
  /\ IF ~sp_ndebug /\ SPSC_empty(sp_head, sp_cached_tail)
       THEN sp_state' = "aborted" /\ UNCHANGED sp_cpc
       ELSE sp_cpc' = "pop_destroy" /\ UNCHANGED sp_state
  /\ sp_ret' = NoCall
  /\ UNCHANGED <<sp_allocated, sp_destroyed, sp_ndebug, sp_concurrent, sp_capacity, sp_ring, sp_prev,
                 sp_live, sp_head, sp_cached_head, sp_tail, sp_cached_tail,
                 sp_ppc, sp_ptail, sp_pushes, sp_ptr, sp_val, sp_got, sp_csync>>

\* pop: ring_[index(head)].~T()
SPSC_pop_destroy ==
  /\ SPSC_consumer_runs
  /\ sp_cpc = "pop_destroy"
  /\ sp_live' = [sp_live EXCEPT ![SPSC_index(sp_chead)] = FALSE]
  /\ sp_cpc' = "pop_store"
  /\ sp_ret' = NoCall
  /\ UNCHANGED <<sp_allocated, sp_destroyed, sp_state, sp_ndebug, sp_concurrent, sp_capacity, sp_ring, sp_prev,
                 sp_head, sp_cached_head, sp_tail, sp_cached_tail,
                 sp_ppc, sp_ptail, sp_pushes, sp_chead, sp_ptr, sp_val, sp_got,
                 sp_csync>>

\* pop: head_.store(head + 1, release)
SPSC_pop_store_head ==
  /\ SPSC_consumer_runs
  /\ sp_cpc = "pop_store"
  /\ sp_head' = sp_chead + 1
  /\ sp_got' = Append(sp_got, sp_val)
  /\ sp_cpc' = "idle"
  /\ sp_ptr' = NoSlot
  /\ sp_ret' = Call("pop", TRUE)
  /\ UNCHANGED <<sp_allocated, sp_destroyed, sp_state, sp_ndebug, sp_concurrent, sp_capacity, sp_ring, sp_prev,
                 sp_live, sp_cached_head, sp_tail, sp_cached_tail,
                 sp_ppc, sp_ptail, sp_pushes, sp_chead, sp_val, sp_csync>>

SPSC_front == SPSC_front_load_head \/ SPSC_front_load_tail

SPSC_pop == SPSC_pop_load_head \/ SPSC_pop_destroy \/ SPSC_pop_store_head

\* ~SPSCQueue runs in one thread once every call has returned
SPSC_destructor_runs ==
  \/ /\ sp_state = "constructed"
     /\ sp_ppc = "idle"
     /\ sp_cpc \in {"idle", "holding", "read"}
  \/ /\ sp_state = "destructing"
     /\ sp_cpc = "dtor_front"

SPSC_destructor_loop_never(ptr) == FALSE

\* while (front() != nullptr)
SPSC_destructor_loop(ptr) == ptr # NoSlot

\* ~SPSCQueue: one call of front() and the test of the loop
SPSC_destructor_front ==
  /\ SPSC_destructor_runs
  /\ sp_chead' = sp_head
  /\ sp_cached_tail' = IF SPSC_empty(sp_head, sp_cached_tail) THEN sp_tail
                        ELSE sp_cached_tail
  /\ sp_ptr' = IF SPSC_empty(sp_head, sp_cached_tail') THEN NoSlot
               ELSE SPSC_index(sp_head)
  /\ sp_state' = "destructing"
  /\ sp_cpc' = IF SPSC_destructor_loop(sp_ptr') THEN "dtor_pop" ELSE "dtor_deallocate"
  /\ sp_ret' = NoCall
  /\ UNCHANGED <<sp_allocated, sp_ndebug, sp_concurrent, sp_capacity, sp_ring, sp_prev, sp_live,
                 sp_head, sp_cached_head, sp_tail, sp_ppc, sp_ptail, sp_pushes,
                 sp_val, sp_got, sp_csync, sp_destroyed>>

\* ~SPSCQueue: one call of pop()
SPSC_destructor_pop ==
  /\ sp_state = "destructing"
  /\ sp_cpc = "dtor_pop"
  /\ sp_chead' = sp_head
  /\ IF ~sp_ndebug /\ SPSC_empty(sp_head, sp_cached_tail)
       THEN /\ sp_state' = "aborted"
            /\ UNCHANGED <<sp_cpc, sp_live, sp_destroyed, sp_head>>
       ELSE LET i == SPSC_index(sp_head) IN
            /\ sp_destroyed' = Append(sp_destroyed, IF sp_live[i] THEN sp_ring[i] ELSE 0)
            /\ sp_live' = [sp_live EXCEPT ![i] = FALSE]
            /\ sp_head' = sp_head + 1
            /\ sp_cpc' = "dtor_front"
            /\ UNCHANGED sp_state
  /\ sp_ret' = NoCall
  /\ UNCHANGED <<sp_allocated, sp_ndebug, sp_concurrent, sp_capacity, sp_ring, sp_prev,
                 sp_cached_head, sp_tail, sp_cached_tail, sp_ppc, sp_ptail,
                 sp_pushes, sp_ptr, sp_val, sp_got, sp_csync>>

\* ~SPSCQueue: deallocate(*this, ring_, capacity_)
SPSC_destructor_deallocate ==
  /\ sp_state = "destructing"
  /\ sp_cpc = "dtor_deallocate"
  /\ sp_state' = "destroyed"
  /\ sp_allocated' = sp_allocated - 1
  /\ sp_cpc' = "idle"
  /\ sp_ret' = Call("dtor", TRUE)
  /\ UNCHANGED <<sp_ndebug, sp_concurrent, sp_capacity, sp_ring, sp_prev, sp_live,
                 sp_head, sp_cached_head, sp_tail, sp_cached_tail, sp_ppc, sp_ptail,
                 sp_pushes, sp_chead, sp_ptr, sp_val, sp_got, sp_csync, sp_destroyed>>

SPSC_destructor ==
  \/ SPSC_destructor_front
  \/ SPSC_destructor_pop
  \/ SPSC_destructor_deallocate

(***************************************************************************)
(* MPMCQueue<int>.  Every thread of QThreads may call push and pop; the    *)
(* k-th push call made on the queue pushes the value k.  Each access to    *)
(* head_, tail_, a slot's seq or a slot's storage is one step.  All        *)
(* accesses to a slot's storage are ordered by the release stores and      *)
(* acquire loads of its seq, unless two threads claim the same slot.       *)
(* A store takes effect at its step; a load need not return the newest     *)
(* value: it returns one that is not older than what its thread has seen   *)
(* (mq_view), and an acquire load that reads a release store brings the    *)
(* thread up to what the storing thread had seen.  A successful            *)
(* compare_exchange acts on the newest value.                              *)
(***************************************************************************)
QThreads == 1 .. NumQueueThreads

QValues == 1 .. MaxPushCalls

NoPos == -1

\* a return: the thread, the call, its result, and for a result of false
\* whether the queue was full (push) or empty (pop) at some instant of the call
NoQCall == [t |-> 0, op |-> "none", ret |-> FALSE, saw |-> FALSE]

QCall(t, o, r, s) == [t |-> t, op |-> o, ret |-> r, saw |-> s]

NobodyAlone == [t |-> 0, steps |-> 0]

\* what a thread has seen before its first call: the constructor's stores.
\* head and tail are the values seen; seq[i] is the number of the store to
\* slot i's seq seen, counted in the order the stores were made
MPMC_view_constructed == [head |-> 0, tail |-> 0, seq |-> [i \in Slots |-> 1]]

\* the state before the constructor runs
MPMC_Init ==
  /\ mq_state = "unconstructed"
  /\ mq_capacity = 0
  /\ mq_head = 0
  /\ mq_tail = 0
  /\ mq_seq = [i \in Slots |-> 0]
  /\ mq_seqlog = <<>>
  /\ mq_view = <<>>
  /\ mq_storage = [i \in Slots |-> 0]
  /\ mq_pc = [t \in QThreads |-> "idle"]
  /\ mq_pos = [t \in QThreads |-> 0]
  /\ mq_arg = [t \in QThreads |-> 0]
  /\ mq_out = [t \in QThreads |-> 0]
  /\ mq_calls = 0
  /\ mq_pushed = {}
  /\ mq_vpos = [v \in QValues |-> NoPos]
  /\ mq_pred = [v \in QValues |-> {}]
  /\ mq_claimpos = [v \in QValues |-> NoPos]
  /\ mq_delivered = [v \in 0 .. MaxPushCalls |-> 0]
  /\ mq_popsDone = 0
  /\ mq_sawEmpty = [t \in QThreads |-> FALSE]
  /\ mq_sawFull = [t \in QThreads |-> FALSE]
  /\ mq_alone = NobodyAlone
  /\ mq_destroyed = [i \in Slots |-> <<>>]
  /\ mq_live = [i \in Slots |-> FALSE]
  /\ mq_allocated = 0
  /\ mq_ret = NoQCall

\* capacity_ == 0 || (capacity_ & (capacity_ - 1))
MPMC_invalid_capacity(capacity) ==
  capacity = 0 \/ BitAnd(capacity, Minus1(capacity)) # 0

MPMC_initial_seq_zero(i) == 0

\* ring_[i].seq.store(i)
MPMC_initial_seq(i) == i

MPMC_slot_zero(pos) == 0

\* pos & (capacity_ - 1)
MPMC_slot(pos) == BitAnd(pos, Minus1(mq_capacity))

\* the elements whose push has returned true and that no pop has claimed
MPMC_available(pushed, vpos, head) == {v \in pushed : vpos[v] >= head}

\* the elements whose push has claimed a position and whose pop has not returned
MPMC_held(tail, popsDone) == tail - popsDone

PushPcs == {"push_load_seq", "push_cas", "push_reload", "push_construct", "push_publish"}

PopPcs == {"pop_load_seq", "pop_cas", "pop_reload", "pop_move", "pop_release"}

\* what the calls in progress have seen of the queue up to the new state
MPMC_observe ==
  /\ mq_sawEmpty' = [t \in QThreads |->
       IF mq_pc'[t] \in PopPcs
         THEN mq_sawEmpty[t] \/ MPMC_available(mq_pushed', mq_vpos', mq_head') = {}
         ELSE FALSE]
  /\ mq_sawFull' = [t \in QThreads |->
       IF mq_pc'[t] \in PushPcs
         THEN mq_sawFull[t] \/ MPMC_held(mq_tail', mq_popsDone') >= mq_capacity
         ELSE FALSE]

\* the steps that t has taken in its call without another thread taking
\* one, counted up to MaxOwnSteps
MPMC_count_steps(t) ==
  mq_alone' = IF mq_pc'[t] = "idle" THEN NobodyAlone
              ELSE IF mq_alone.t = t
                THEN [t |-> t, steps |-> IF mq_alone.steps < MaxOwnSteps
                                           THEN mq_alone.steps + 1
                                           ELSE MaxOwnSteps]
                ELSE [t |-> t, steps |-> 1]

\* the values a load of tail_ by t can return. tail_ is loaded with
\* memory_order_relaxed and changed by compare_exchange only, one by one:
\* the load returns a value tail_ has held that is not older than what t has
\* seen, not always the newest one
MPMC_tail_loaded(t) == mq_view[t].tail .. mq_tail

\* the values a load of head_ by t can return, likewise
MPMC_head_loaded(t) == mq_view[t].head .. mq_head

\* the stores to the seq of slot i that slot.seq.load(acquire) by t can read:
\* seq is stored with memory_order_release and no seq_cst operation stands
\* between a thread's store to one slot's seq and its load of another's, so
\* the load need not read the newest store; it reads one that is not older
\* than what t has seen
MPMC_seq_loaded(t, i) == mq_view[t].seq[i] .. Len(mq_seqlog[i])

\* t after slot.seq.load(acquire) has read store k of slot i: the load
\* synchronizes with that release store, and t has seen what the storing
\* thread had seen
MPMC_acquire(t, i, k) ==
  LET mine == mq_view[t]
      theirs == mq_seqlog[i][k].view
  IN  mq_view' = [mq_view EXCEPT ![t] =
        [head |-> Max(mine.head, theirs.head),
         tail |-> Max(mine.tail, theirs.tail),
         seq |-> [j \in Slots |-> Max(mine.seq[j], theirs.seq[j])]]]

\* slot.seq.store(seq, release) by t on slot i
MPMC_release(t, i, seq) ==
  LET view == [mq_view[t] EXCEPT !.seq[i] = Len(mq_seqlog[i]) + 1] IN
    /\ mq_seq' = [mq_seq EXCEPT ![i] = seq]
    /\ mq_seqlog' = [mq_seqlog EXCEPT ![i] = Append(@, [val |-> seq, view |-> view])]
    /\ mq_view' = [mq_view EXCEPT ![t] = view]

\* the constructor, with its loop over the slots
\* ring_{slot_allocator_.allocate(capacity_)} is a member initializer: the
\* buffer is obtained before the body tests capacity_, and the body has no
\* deallocate; new (&ring_[i]) Slot default-constructs the T member storage
MPMC_construct(capacity) ==
  /\ mq_state = "unconstructed"
  /\ mq_capacity' = capacity
  /\ mq_allocated' = mq_allocated + 1
  /\ IF MPMC_invalid_capacity(capacity)
       THEN mq_state' = "invalid_argument" /\ UNCHANGED <<mq_seq, mq_seqlog, mq_view, mq_live>>
       ELSE /\ mq_state' = "constructed"
            /\ mq_seq' = [i \in Slots |-> IF i < capacity THEN MPMC_initial_seq(i) ELSE 0]
            /\ mq_seqlog' = [i \in Slots |->
                 <<[val |-> mq_seq'[i], view |-> MPMC_view_constructed]>>]
            /\ mq_view' = [t \in QThreads |-> MPMC_view_constructed]
            /\ mq_live' = [i \in Slots |-> i < capacity]
  /\ mq_ret' = QCall(0, "ctor", mq_state' = "constructed", FALSE)
  /\ UNCHANGED <<mq_head, mq_tail, mq_storage, mq_pc, mq_pos, mq_arg, mq_out,
                 mq_calls, mq_pushed, mq_vpos, mq_pred, mq_claimpos, mq_delivered,
                 mq_popsDone, mq_sawEmpty, mq_sawFull, mq_alone, mq_destroyed>>

\* emplace: uint64_t pos = tail_.load(relaxed)
MPMC_emplace_load_tail(t) ==
  /\ mq_state = "constructed"
  /\ mq_pc[t] = "idle"
  /\ mq_calls < MaxPushCalls
  /\ mq_calls' = mq_calls + 1
  /\ mq_arg' = [mq_arg EXCEPT ![t] = mq_calls + 1]
  /\ mq_pred' = [mq_pred EXCEPT ![mq_calls + 1] = mq_pushed]
  /\ \E tail \in MPMC_tail_loaded(t) :
       /\ mq_pos' = [mq_pos EXCEPT ![t] = tail]
       /\ mq_view' = [mq_view EXCEPT ![t].tail = tail]
  /\ mq_pc' = [mq_pc EXCEPT ![t] = "push_load_seq"]
  /\ mq_ret' = NoQCall
  /\ UNCHANGED <<mq_allocated, mq_live, mq_destroyed, mq_state, mq_capacity, mq_head, mq_tail, mq_seq, mq_seqlog, mq_storage,
                 mq_out, mq_pushed, mq_vpos, mq_claimpos, mq_delivered, mq_popsDone>>
  /\ MPMC_observe
  /\ MPMC_count_steps(t)

\* emplace: seq = slot.seq.load(acquire); cmp = seq <=> pos
MPMC_emplace_load_seq(t) ==
  /\ mq_pc[t] = "push_load_seq"
  /\ \E k \in MPMC_seq_loaded(t, MPMC_slot(mq_pos[t])) :
       LET seq == mq_seqlog[MPMC_slot(mq_pos[t])][k].val IN
         /\ MPMC_acquire(t, MPMC_slot(mq_pos[t]), k)
         /\ IF seq = mq_pos[t]
              THEN mq_pc' = [mq_pc EXCEPT ![t] = "push_cas"] /\ mq_ret' = NoQCall
              ELSE IF seq < mq_pos[t]
                THEN /\ mq_pc' = [mq_pc EXCEPT ![t] = "idle"]
                     /\ mq_ret' = QCall(t, "push", FALSE,
                            mq_sawFull[t] \/ MPMC_held(mq_tail, mq_popsDone) >= mq_capacity)
                ELSE mq_pc' = [mq_pc EXCEPT ![t] = "push_reload"] /\ mq_ret' = NoQCall
  /\ mq_pos' = IF mq_pc'[t] = "idle" THEN [mq_pos EXCEPT ![t] = 0] ELSE mq_pos
  /\ mq_arg' = IF mq_pc'[t] = "idle" THEN [mq_arg EXCEPT ![t] = 0] ELSE mq_arg
  /\ UNCHANGED <<mq_allocated, mq_live, mq_destroyed, mq_state, mq_capacity, mq_head, mq_tail, mq_seq, mq_seqlog, mq_storage,
                 mq_out, mq_calls, mq_pushed, mq_vpos, mq_pred,
                 mq_claimpos, mq_delivered, mq_popsDone>>
  /\ MPMC_observe
  /\ MPMC_count_steps(t)

\* emplace: tail_.compare_exchange_weak(pos, pos + 1, relaxed)
MPMC_emplace_cas(t) ==
  /\ mq_pc[t] = "push_cas"
  /\ \/ \* success: the exchange acts on the newest value of tail_
        /\ mq_tail = mq_pos[t]
        /\ mq_tail' = mq_pos[t] + 1
        /\ mq_view' = [mq_view EXCEPT ![t].tail = mq_pos[t] + 1]
        /\ mq_vpos' = [mq_vpos EXCEPT ![mq_arg[t]] = mq_pos[t]]
        /\ mq_pc' = [mq_pc EXCEPT ![t] = "push_construct"]
        /\ UNCHANGED mq_pos
     \/ \* failure, also a spurious one: pos takes the value loaded from tail_
        /\ \E tail \in MPMC_tail_loaded(t) :
             /\ mq_pos' = [mq_pos EXCEPT ![t] = tail]
             /\ mq_view' = [mq_view EXCEPT ![t].tail = tail]
        /\ mq_pc' = [mq_pc EXCEPT ![t] = "push_load_seq"]
        /\ UNCHANGED <<mq_tail, mq_vpos>>
  /\ mq_ret' = NoQCall
  /\ UNCHANGED <<mq_allocated, mq_live, mq_destroyed, mq_state, mq_capacity, mq_head, mq_seq, mq_seqlog, mq_storage,
                 mq_arg, mq_out, mq_calls, mq_pushed, mq_pred,
                 mq_claimpos, mq_delivered, mq_popsDone>>
  /\ MPMC_observe
  /\ MPMC_count_steps(t)

\* emplace: pos = tail_.load(relaxed)
MPMC_emplace_reload(t) ==
  /\ mq_pc[t] = "push_reload"
  /\ \E tail \in MPMC_tail_loaded(t) :
       /\ mq_pos' = [mq_pos EXCEPT ![t] = tail]
       /\ mq_view' = [mq_view EXCEPT ![t].tail = tail]
  /\ mq_pc' = [mq_pc EXCEPT ![t] = "push_load_seq"]
  /\ mq_ret' = NoQCall
  /\ UNCHANGED <<mq_allocated, mq_live, mq_destroyed, mq_state, mq_capacity, mq_head, mq_tail, mq_seq, mq_seqlog, mq_storage,
                 mq_arg, mq_out, mq_calls, mq_pushed, mq_vpos, mq_pred,
                 mq_claimpos, mq_delivered, mq_popsDone>>
  /\ MPMC_observe
  /\ MPMC_count_steps(t)

\* emplace: new (&slot.storage) T(args...)
MPMC_emplace_construct(t) ==
  /\ mq_pc[t] = "push_construct"
  /\ mq_storage' = [mq_storage EXCEPT ![MPMC_slot(mq_pos[t])] = mq_arg[t]]
  /\ mq_live' = [mq_live EXCEPT ![MPMC_slot(mq_pos[t])] = TRUE]
  /\ mq_pc' = [mq_pc EXCEPT ![t] = "push_publish"]
  /\ mq_ret' = NoQCall
  /\ UNCHANGED <<mq_allocated, mq_destroyed, mq_state, mq_capacity, mq_head, mq_tail, mq_seq, mq_seqlog, mq_view,
                 mq_pos, mq_arg, mq_out, mq_calls, mq_pushed, mq_vpos, mq_pred,
                 mq_claimpos, mq_delivered, mq_popsDone>>
  /\ MPMC_observe
  /\ MPMC_count_steps(t)

\* emplace: slot.seq.store(pos + 1, release); return true
MPMC_emplace_publish(t) ==
  /\ mq_pc[t] = "push_publish"
  /\ MPMC_release(t, MPMC_slot(mq_pos[t]), mq_pos[t] + 1)
  /\ mq_pushed' = mq_pushed \cup {mq_arg[t]}
  /\ mq_pc' = [mq_pc EXCEPT ![t] = "idle"]
  /\ mq_ret' = QCall(t, "push", TRUE, FALSE)
  /\ mq_pos' = [mq_pos EXCEPT ![t] = 0]
  /\ mq_arg' = [mq_arg EXCEPT ![t] = 0]
  /\ UNCHANGED <<mq_allocated, mq_live, mq_destroyed, mq_state, mq_capacity, mq_head, mq_tail, mq_storage,
                 mq_out, mq_calls, mq_vpos, mq_pred,
                 mq_claimpos, mq_delivered, mq_popsDone>>
  /\ MPMC_observe
  /\ MPMC_count_steps(t)

MPMC_emplace(t) ==
  \/ MPMC_emplace_load_tail(t)
  \/ MPMC_emplace_load_seq(t)
  \/ MPMC_emplace_cas(t)
  \/ MPMC_emplace_reload(t)
  \/ MPMC_emplace_construct(t)
  \/ MPMC_emplace_publish(t)

\* pop: uint64_t pos = head_.load(relaxed)
MPMC_pop_load_head(t) ==
  /\ mq_state = "constructed"
  /\ mq_pc[t] = "idle"
  /\ \E head \in MPMC_head_loaded(t) :
       /\ mq_pos' = [mq_pos EXCEPT ![t] = head]
       /\ mq_view' = [mq_view EXCEPT ![t].head = head]
  /\ mq_pc' = [mq_pc EXCEPT ![t] = "pop_load_seq"]
  /\ mq_ret' = NoQCall
  /\ UNCHANGED <<mq_allocated, mq_live, mq_destroyed, mq_state, mq_capacity, mq_head, mq_tail, mq_seq, mq_seqlog, mq_storage,
                 mq_arg, mq_out, mq_calls, mq_pushed, mq_vpos, mq_pred,
                 mq_claimpos, mq_delivered, mq_popsDone>>
  /\ MPMC_observe
  /\ MPMC_count_steps(t)

\* pop: seq = slot.seq.load(acquire); cmp = seq <=> pos + 1
MPMC_pop_load_seq(t) ==
  /\ mq_pc[t] = "pop_load_seq"
  /\ \E k \in MPMC_seq_loaded(t, MPMC_slot(mq_pos[t])) :
       LET seq == mq_seqlog[MPMC_slot(mq_pos[t])][k].val IN
         /\ MPMC_acquire(t, MPMC_slot(mq_pos[t]), k)
         /\ IF seq = mq_pos[t] + 1
              THEN mq_pc' = [mq_pc EXCEPT ![t] = "pop_cas"] /\ mq_ret' = NoQCall
              ELSE IF seq < mq_pos[t] + 1
                THEN /\ mq_pc' = [mq_pc EXCEPT ![t] = "idle"]
                     /\ mq_ret' = QCall(t, "pop", FALSE,
                            mq_sawEmpty[t]
                              \/ MPMC_available(mq_pushed, mq_vpos, mq_head) = {})
                ELSE mq_pc' = [mq_pc EXCEPT ![t] = "pop_reload"] /\ mq_ret' = NoQCall
  /\ mq_pos' = IF mq_pc'[t] = "idle" THEN [mq_pos EXCEPT ![t] = 0] ELSE mq_pos
  /\ UNCHANGED <<mq_allocated, mq_live, mq_destroyed, mq_state, mq_capacity, mq_head, mq_tail, mq_seq, mq_seqlog, mq_storage,
                 mq_arg, mq_out, mq_calls, mq_pushed, mq_vpos, mq_pred,
                 mq_claimpos, mq_delivered, mq_popsDone>>
  /\ MPMC_observe
  /\ MPMC_count_steps(t)

\* pop: head_.compare_exchange_weak(pos, pos + 1, relaxed)
MPMC_pop_cas(t) ==
  /\ mq_pc[t] = "pop_cas"
  /\ \/ \* success: the exchange acts on the newest value of head_
        /\ mq_head = mq_pos[t]
        /\ mq_head' = mq_pos[t] + 1
        /\ mq_view' = [mq_view EXCEPT ![t].head = mq_pos[t] + 1]
        /\ mq_pc' = [mq_pc EXCEPT ![t] = "pop_move"]
        /\ UNCHANGED mq_pos
     \/ \* failure, also a spurious one: pos takes the value loaded from head_
        /\ \E head \in MPMC_head_loaded(t) :
             /\ mq_pos' = [mq_pos EXCEPT ![t] = head]
             /\ mq_view' = [mq_view EXCEPT ![t].head = head]
        /\ mq_pc' = [mq_pc EXCEPT ![t] = "pop_load_seq"]
        /\ UNCHANGED mq_head
  /\ mq_ret' = NoQCall
  /\ UNCHANGED <<mq_allocated, mq_live, mq_destroyed, mq_state, mq_capacity, mq_tail, mq_seq, mq_seqlog, mq_storage,
                 mq_arg, mq_out, mq_calls, mq_pushed, mq_vpos, mq_pred,
                 mq_claimpos, mq_delivered, mq_popsDone>>
  /\ MPMC_observe
  /\ MPMC_count_steps(t)

\* pop: pos = head_.load(relaxed)
MPMC_pop_reload(t) ==
  /\ mq_pc[t] = "pop_reload"
  /\ \E head \in MPMC_head_loaded(t) :
       /\ mq_pos' = [mq_pos EXCEPT ![t] = head]
       /\ mq_view' = [mq_view EXCEPT ![t].head = head]
  /\ mq_pc' = [mq_pc EXCEPT ![t] = "pop_load_seq"]
  /\ mq_ret' = NoQCall
  /\ UNCHANGED <<mq_allocated, mq_live, mq_destroyed, mq_state, mq_capacity, mq_head, mq_tail, mq_seq, mq_seqlog, mq_storage,
                 mq_arg, mq_out, mq_calls, mq_pushed, mq_vpos, mq_pred,
                 mq_claimpos, mq_delivered, mq_popsDone>>
  /\ MPMC_observe
  /\ MPMC_count_steps(t)

\* pop: out = std::move(slot.storage), a move assignment from the T member:
\* the lifetime of storage goes on
MPMC_pop_move(t) ==
  /\ mq_pc[t] = "pop_move"
  /\ mq_out' = [mq_out EXCEPT ![t] = mq_storage[MPMC_slot(mq_pos[t])]]
  /\ mq_pc' = [mq_pc EXCEPT ![t] = "pop_release"]
  /\ mq_ret' = NoQCall
  /\ UNCHANGED <<mq_allocated, mq_live, mq_destroyed, mq_state, mq_capacity, mq_head, mq_tail, mq_seq, mq_seqlog, mq_view, mq_storage,
                 mq_pos, mq_arg, mq_calls, mq_pushed, mq_vpos, mq_pred,
                 mq_claimpos, mq_delivered, mq_popsDone>>
  /\ MPMC_observe
  /\ MPMC_count_steps(t)

\* pop: slot.seq.store(pos + capacity_, release); return true
MPMC_pop_release(t) ==
  /\ mq_pc[t] = "pop_release"
  /\ MPMC_release(t, MPMC_slot(mq_pos[t]), mq_pos[t] + mq_capacity)
  /\ mq_delivered' = [mq_delivered EXCEPT ![mq_out[t]] = @ + 1]
  /\ mq_claimpos' = IF mq_out[t] \in QValues
                      THEN [mq_claimpos EXCEPT ![mq_out[t]] = mq_pos[t]]
                      ELSE mq_claimpos
  /\ mq_popsDone' = mq_popsDone + 1
  /\ mq_pc' = [mq_pc EXCEPT ![t] = "idle"]
  /\ mq_ret' = QCall(t, "pop", TRUE, FALSE)
  /\ mq_pos' = [mq_pos EXCEPT ![t] = 0]
  /\ UNCHANGED <<mq_allocated, mq_live, mq_destroyed, mq_state, mq_capacity, mq_head, mq_tail, mq_storage,
                 mq_arg, mq_out, mq_calls, mq_pushed, mq_vpos, mq_pred>>
  /\ MPMC_observe
  /\ MPMC_count_steps(t)

MPMC_pop(t) ==
  \/ MPMC_pop_load_head(t)
  \/ MPMC_pop_load_seq(t)
  \/ MPMC_pop_cas(t)
  \/ MPMC_pop_reload(t)
  \/ MPMC_pop_move(t)
  \/ MPMC_pop_release(t)

\* if (seq == i + 1)
MPMC_destructor_slot_not_empty(i, seq) == seq = i + 1

\* ~MPMCQueue, with its loop over the slots: slot.storage.~T() for a slot
\* found not empty, then slot.~Slot(), which destroys the members of the
\* slot, the T member storage among them
MPMC_destructor ==
  /\ mq_state = "constructed"
  /\ \A t \in QThreads : mq_pc[t] = "idle"
  /\ mq_state' = "destroyed"
  /\ mq_live' = [i \in Slots |-> FALSE]
  /\ mq_allocated' = mq_allocated - 1
  /\ mq_destroyed' = [i \in Slots |->
       IF i < mq_capacity
         THEN (IF MPMC_destructor_slot_not_empty(i, mq_seq[i])
                 THEN <<"storage.~T()">> ELSE <<>>) \o <<"slot.~Slot()">>
         ELSE <<>>]
  /\ mq_ret' = QCall(0, "dtor", TRUE, FALSE)
  /\ UNCHANGED <<mq_capacity, mq_head, mq_tail, mq_seq, mq_seqlog, mq_view, mq_storage, mq_pc, mq_pos,
                 mq_arg, mq_out, mq_calls, mq_pushed, mq_vpos, mq_pred, mq_claimpos,
                 mq_delivered, mq_popsDone, mq_sawEmpty, mq_sawFull, mq_alone>>

\* a step of a call in progress
MPMC_call_step(t) ==
  /\ mq_pc[t] # "idle"
  /\ (MPMC_emplace(t) \/ MPMC_pop(t))

\* compare_exchange_weak on hardware where it fails only when the word differs
\* from the expected value
MPMC_cas_fails_on_difference_only(t) ==
  /\ (mq_pc[t] = "push_cas" /\ mq_tail = mq_pos[t]) => mq_tail' = mq_tail + 1
  /\ (mq_pc[t] = "pop_cas" /\ mq_head = mq_pos[t]) => mq_head' = mq_head + 1

\* a step of t from one of the places pcs in which the load returns the
\* newest value: the stores made before it have become visible to t
MPMC_load_sees_newest(t, pcs) ==
  /\ mq_pc[t] \in pcs
  /\ (MPMC_emplace(t) \/ MPMC_pop(t))
  /\ MPMC_cas_fails_on_difference_only(t)
  /\ mq_pc'[t] = "push_load_seq" => mq_pos'[t] = mq_tail
  /\ mq_pc'[t] = "pop_load_seq" => mq_pos'[t] = mq_head
  /\ mq_pc[t] \in {"push_load_seq", "pop_load_seq"}
       => mq_view'[t].seq[MPMC_slot(mq_pos[t])] = Len(mq_seqlog[MPMC_slot(mq_pos[t])])

(***************************************************************************)
(* Specifications                                                          *)
(***************************************************************************)
\* each specification runs one primitive; the others stay as constructed
InitWaitFree ==
  /\ WaitFree_Init(InitialHoldings)
  /\ wf_lin = LinInit(wf_init)
  /\ LockFree_Init(DefaultHoldings)
  /\ SeqLock_Init
  /\ SPSC_Init
  /\ MPMC_Init

InitLockFree ==
  /\ WaitFree_Init(DefaultHoldings)
  /\ wf_lin = LinInit(wf_init)
  /\ LockFree_Init(InitialHoldings)
  /\ SeqLock_Init
  /\ SPSC_Init
  /\ MPMC_Init

InitSeqLock ==
  /\ WaitFree_Init(DefaultHoldings)
  /\ wf_lin = LinInit(wf_init)
  /\ LockFree_Init(DefaultHoldings)
  /\ SeqLock_Init
  /\ SPSC_Init
  /\ MPMC_Init

NextWaitFree == \E t \in Threads : WaitFree_Step(t) /\ UNCHANGED <<wf_lin, lfVars, slVars, spVars, mqVars>>

\* the wait-free counter with the monitor following its calls and returns;
\* the monitor stops at the first history that is not linearizable
NextWaitFreeLin ==
  /\ wf_lin # {}
  /\ \E t \in Threads : WaitFree_Step(t) /\ wf_lin' = LinStep(t)
                      /\ UNCHANGED <<lfVars, slVars, spVars, mqVars>>

NextLockFree == \E t \in Threads : LockFree_Step(t) /\ UNCHANGED <<wfVars, wf_lin, slVars, spVars, mqVars>>

SpecWaitFree == InitWaitFree /\ [][NextWaitFree]_vars

SpecWaitFreeLin == InitWaitFree /\ [][NextWaitFreeLin]_vars

SpecLockFree == InitLockFree /\ [][NextLockFree]_vars

NextSeqLock ==
  \/ SeqLock_write /\ UNCHANGED <<wfVars, wf_lin, lfVars, spVars, mqVars>>
  \/ \E r \in Readers : SeqLock_read(r) /\ UNCHANGED <<wfVars, wf_lin, lfVars, spVars, mqVars>>

SpecSeqLock == InitSeqLock /\ [][NextSeqLock]_vars

\* a reader that is scheduled keeps taking the steps of its read(); nothing is
\* assumed of the writer.  A load may return an older value any number of
\* times, but not for ever: an implementation makes a store visible to the
\* other threads within a finite time, so a reader that keeps loading s1
\* loads the newest value of seq_ again and again
SpecSeqLockFair ==
  /\ SpecSeqLock
  /\ \A r \in Readers :
       /\ WF_slVars(SeqLock_read(r))
       /\ SF_slVars(SeqLock_read_load1(r) /\ sl_rs1'[r] = seq_)

NextSPSC ==
  \/ \E capacity \in 0 .. MaxCapacity, ndebug \in BOOLEAN, concurrent \in BOOLEAN :
       SPSC_construct(capacity, ndebug, concurrent)
         /\ UNCHANGED <<wfVars, wf_lin, lfVars, slVars, mqVars>>
  \/ SPSC_emplace /\ UNCHANGED <<wfVars, wf_lin, lfVars, slVars, mqVars>>
  \/ SPSC_front /\ UNCHANGED <<wfVars, wf_lin, lfVars, slVars, mqVars>>
  \/ SPSC_read /\ UNCHANGED <<wfVars, wf_lin, lfVars, slVars, mqVars>>
  \/ SPSC_pop /\ UNCHANGED <<wfVars, wf_lin, lfVars, slVars, mqVars>>

InitSPSC ==
  /\ WaitFree_Init(DefaultHoldings)
  /\ wf_lin = LinInit(wf_init)
  /\ LockFree_Init(DefaultHoldings)
  /\ SeqLock_Init
  /\ SPSC_Init
  /\ MPMC_Init

SpecSPSC == InitSPSC /\ [][NextSPSC]_vars

\* the queue from its construction to its destruction
NextSPSCLifetime ==
  \/ NextSPSC
  \/ SPSC_destructor /\ UNCHANGED <<wfVars, wf_lin, lfVars, slVars, mqVars>>

SpecSPSCLifetime == InitSPSC /\ [][NextSPSCLifetime]_vars

InitMPMC ==
  /\ WaitFree_Init(DefaultHoldings)
  /\ wf_lin = LinInit(wf_init)
  /\ LockFree_Init(DefaultHoldings)
  /\ SeqLock_Init
  /\ SPSC_Init
  /\ MPMC_Init

NextMPMC ==
  \/ \E capacity \in 0 .. MaxCapacity :
       MPMC_construct(capacity) /\ UNCHANGED <<wfVars, wf_lin, lfVars, slVars, spVars>>
  \/ \E t \in QThreads :
       MPMC_emplace(t) /\ UNCHANGED <<wfVars, wf_lin, lfVars, slVars, spVars>>
  \/ \E t \in QThreads :
       MPMC_pop(t) /\ UNCHANGED <<wfVars, wf_lin, lfVars, slVars, spVars>>

SpecMPMC == InitMPMC /\ [][NextMPMC]_vars

\* the queue used by one thread only, as in the single-threaded tests
NextMPMCSequential ==
  \/ \E capacity \in 0 .. MaxCapacity :
       MPMC_construct(capacity) /\ UNCHANGED <<wfVars, wf_lin, lfVars, slVars, spVars>>
  \/ MPMC_emplace(1) /\ UNCHANGED <<wfVars, wf_lin, lfVars, slVars, spVars>>
  \/ MPMC_pop(1) /\ UNCHANGED <<wfVars, wf_lin, lfVars, slVars, spVars>>

SpecMPMCSequential == InitMPMC /\ [][NextMPMCSequential]_vars

\* one thread uses one queue of either kind, as in the single-threaded tests
NextSingleThreaded ==
  \/ \E capacity \in 0 .. MaxCapacity, ndebug \in BOOLEAN :
       /\ mq_state = "unconstructed"
       /\ SPSC_construct(capacity, ndebug, FALSE)
       /\ UNCHANGED <<wfVars, wf_lin, lfVars, slVars, mqVars>>
  \/ SPSC_emplace /\ UNCHANGED <<wfVars, wf_lin, lfVars, slVars, mqVars>>
  \/ SPSC_front /\ UNCHANGED <<wfVars, wf_lin, lfVars, slVars, mqVars>>
  \/ SPSC_read /\ UNCHANGED <<wfVars, wf_lin, lfVars, slVars, mqVars>>
  \/ SPSC_pop /\ UNCHANGED <<wfVars, wf_lin, lfVars, slVars, mqVars>>
  \/ \E capacity \in 0 .. MaxCapacity :
       /\ sp_state = "unconstructed"
       /\ MPMC_construct(capacity)
       /\ UNCHANGED <<wfVars, wf_lin, lfVars, slVars, spVars>>
  \/ MPMC_emplace(1) /\ UNCHANGED <<wfVars, wf_lin, lfVars, slVars, spVars>>
  \/ MPMC_pop(1) /\ UNCHANGED <<wfVars, wf_lin, lfVars, slVars, spVars>>

SpecSingleThreaded == InitMPMC /\ [][NextSingleThreaded]_vars

\* the queue from its construction to its destruction
NextMPMCLifetime ==
  \/ NextMPMC
  \/ MPMC_destructor /\ UNCHANGED <<wfVars, wf_lin, lfVars, slVars, spVars>>

SpecMPMCLifetime == InitMPMC /\ [][NextMPMCLifetime]_vars

\* one queue of either kind, used by its threads
NextEitherQueue ==
  \/ \E capacity \in 0 .. MaxCapacity, ndebug \in BOOLEAN, concurrent \in BOOLEAN :
       /\ mq_state = "unconstructed"
       /\ SPSC_construct(capacity, ndebug, concurrent)
       /\ UNCHANGED <<wfVars, wf_lin, lfVars, slVars, mqVars>>
  \/ SPSC_emplace /\ UNCHANGED <<wfVars, wf_lin, lfVars, slVars, mqVars>>
  \/ SPSC_front /\ UNCHANGED <<wfVars, wf_lin, lfVars, slVars, mqVars>>
  \/ SPSC_read /\ UNCHANGED <<wfVars, wf_lin, lfVars, slVars, mqVars>>
  \/ SPSC_pop /\ UNCHANGED <<wfVars, wf_lin, lfVars, slVars, mqVars>>
  \/ \E capacity \in 0 .. MaxCapacity :
       /\ sp_state = "unconstructed"
       /\ MPMC_construct(capacity)
       /\ UNCHANGED <<wfVars, wf_lin, lfVars, slVars, spVars>>
  \/ \E t \in QThreads :
       MPMC_emplace(t) /\ UNCHANGED <<wfVars, wf_lin, lfVars, slVars, spVars>>
  \/ \E t \in QThreads :
       MPMC_pop(t) /\ UNCHANGED <<wfVars, wf_lin, lfVars, slVars, spVars>>

SpecEitherQueue == InitMPMC /\ [][NextEitherQueue]_vars

\* the threads without spurious failures of the weak CAS
NextMPMCProgress ==
  \/ \E capacity \in 0 .. MaxCapacity :
       MPMC_construct(capacity) /\ UNCHANGED <<wfVars, wf_lin, lfVars, slVars, spVars>>
  \/ \E t \in QThreads :
       MPMC_emplace(t) /\ MPMC_cas_fails_on_difference_only(t)
         /\ UNCHANGED <<wfVars, wf_lin, lfVars, slVars, spVars>>
  \/ \E t \in QThreads :
       MPMC_pop(t) /\ MPMC_cas_fails_on_difference_only(t)
         /\ UNCHANGED <<wfVars, wf_lin, lfVars, slVars, spVars>>

\* while some call is in progress, some thread inside a call takes a step;
\* nothing is assumed about which thread it is.  A load may return an older
\* value any number of times, but not for ever: an implementation makes a
\* store visible to the other threads within a finite time, so a thread that
\* keeps loading tail_ or head_, or keeps loading a slot's seq, loads the
\* newest value again and again
SpecMPMCProgress ==
  /\ InitMPMC
  /\ [][NextMPMCProgress]_vars
  /\ WF_mqVars(\E t \in QThreads :
                 MPMC_call_step(t) /\ MPMC_cas_fails_on_difference_only(t))
  /\ \A t \in QThreads :
       /\ SF_mqVars(MPMC_load_sees_newest(t,
              {"push_reload", "push_cas", "pop_reload", "pop_cas"}))
       /\ SF_mqVars(MPMC_load_sees_newest(t, {"push_load_seq", "pop_load_seq"}))

(***************************************************************************)
(* Claims: WaitFreeZeroStickyCounter                                       *)
(***************************************************************************)

\* every reference has been decremented and every decrement has returned
WaitFree_AllReleased ==
  \A t \in Threads : wf_held[t] = 0 /\ wf_pc[t] \notin {"dec_load", "dec_cas", "dec_exchange"}

\* C1: at most one decrement call ever returns true, and exactly one has
\* returned true once every held reference has been decremented.
C1_OneDecrementReturnsTrue ==
  /\ wf_decTrue <= 1
  /\ WaitFree_AllReleased => wf_decTrue = 1

\* C2: once a read() has returned 0, every read() that starts afterwards
\* returns 0 and every incrementIfNotZero() that starts afterwards returns false.
C2_StickyAfterReadZero ==
  wf_ret.after =>
    /\ wf_ret.op = "read" => wf_ret.ret = Plain(0)
    /\ wf_ret.op = "inc" => wf_ret.ret = FALSE

\* C3: whenever a decrement returns true, the number of decrement calls
\* started so far equals the initial count plus the number of
\* incrementIfNotZero calls that returned true (no thread holds a reference).
C3_TrueOnlyWhenNoReferenceLeft ==
  (wf_ret.op = "dec" /\ wf_ret.ret = TRUE) =>
    wf_decStarted = wf_init + wf_incTrue

\* C4: every history of incrementIfNotZero/decrement/read on the wait-free
\* counter is linearizable to the atomic sticky counter.
C4_LinearizableToAtomicCounter == wf_lin # {}

(***************************************************************************)
(* Claims: LockFreeZeroStickyCounter                                       *)
(***************************************************************************)

\* C5: once the stored value is 0 it stays 0, every later incrementIfNotZero
\* returns false, every later read returns 0, and exactly one decrement (the
\* one whose prior value was 1) has returned true.
C5_LockFreeStaysZero ==
  /\ lf_wasZero => lf_counter = Plain(0) /\ lf_decTrue = 1
  /\ ~lf_wasZero => lf_decTrue = 0
  /\ lf_ret.after =>
       /\ lf_ret.op = "inc" => lf_ret.ret = FALSE
       /\ lf_ret.op = "read" => lf_ret.ret = Plain(0)

\* an incrementIfNotZero that started after the value was 0 has returned
\* (false), after a decrement had returned true
C5_Witness ==
  /\ lf_wasZero /\ lf_decTrue = 1
  /\ lf_ret.op = "inc" /\ lf_ret.after /\ lf_ret.ret = FALSE

(***************************************************************************)
(* Claims: SeqLock                                                         *)
(***************************************************************************)

\* C6: every value returned by read() is a whole value: all its words come
\* from one write(), or all from the initial T(); read() never returns a
\* mixture of parts of two different writes nor a partially written value.
C6_ReturnsWrittenOrInitialValue ==
  sl_ret.r # 0 => \E k \in 0 .. sl_writes : sl_ret.v = TVal(k)

\* C7: a reader never returns the value of a write older than the write whose
\* value its previous read() returned (the writer stores 1, 2, 3, ...): every
\* result is the value of a write, and that write is not older than the one
\* of the previous result.
C7_ReadsFollowWriteOrder ==
  sl_ret.r # 0 =>
    \E i \in 0 .. sl_writes, j \in 0 .. sl_writes :
      i <= j /\ sl_ret.prev = TVal(i) /\ sl_ret.v = TVal(j)

\* C8: a read() that starts after the latest write() has returned (its
\* first load of seq_ reads what that write() stored last, or 0 before any
\* write()) and that no write() overlaps returns the value of that write(),
\* and T() before any write().
C8_ReadReturnsLatestWrite ==
  (sl_ret.r # 0 /\ ~sl_ret.overlap) => sl_ret.v = TVal(sl_writes)

\* a read() that started after write(2) had returned, with no write()
\* running meanwhile, has returned
C8_Witness ==
  sl_ret.r # 0 /\ ~sl_ret.overlap /\ sl_writes = 2 /\ sl_ret.v = TVal(2)

\* C9: whatever the readers do, a write() in progress can always take its
\* next step, and it returns within SeqLock_write_steps steps of the writer.
C9_WriteIsWaitFree ==
  /\ sl_wsteps < SeqLock_write_steps
  /\ sl_wpc # "idle" =>
       ENABLED (SeqLock_write /\ UNCHANGED <<wfVars, wf_lin, lfVars, spVars, mqVars>>)

\* a write() has stored both sequence values and returned while a reader sat
\* in the middle of the read() it had started before
C9_Witness ==
  /\ sl_wpc = "idle" /\ sl_writes >= 1
  /\ \E r \in Readers :
       /\ sl_rpc[r] = "copy" /\ sl_ri[r] > 1
       /\ sl_rs1[r] % 2 = 0 /\ seq_ >= sl_rs1[r] + 2

\* C10: if the writer eventually stops with its last write() completed, every
\* read() in progress or started later eventually returns (the reader being
\* scheduled fairly).
C10_ReadReturnsOnceWritesStop ==
  <>[](sl_wpc = "idle") =>
    \A r \in Readers : (sl_rpc[r] # "idle") ~> (sl_rpc[r] = "idle")

\* the writer has made its last write() and a read() that had to retry
\* because of it has returned
C10_Witness ==
  /\ sl_wpc = "idle" /\ sl_writes = MaxWrites
  /\ sl_ret.r # 0 /\ sl_ret.overlap /\ sl_ret.v = TVal(MaxWrites)

(***************************************************************************)
(* Claims: SPSCQueue                                                       *)
(***************************************************************************)
\* C11: with the producer and the consumer running concurrently, the values
\* the consumer obtains through front() + pop() are the values whose push
\* returned true, in push order: the k-th value obtained is the k-th pushed,
\* none is lost, duplicated or reordered.
C11_PoppedSequenceIsPushedSequence ==
  (sp_state = "constructed" /\ sp_concurrent) =>
    /\ Len(sp_got) = sp_head
    /\ Len(sp_got) <= sp_pushes
    /\ \A k \in 1 .. Len(sp_got) : sp_got[k] = k

\* C12: a push returns false only if the queue is full at the instant the call
\* reads head_: tail - head = capacity.  A push that reads head_ while fewer
\* than capacity elements are present (an element is present until its pop
\* has stored head + 1) goes on and returns true, also when cached_head_ was
\* stale.
C12_PushFalseOnlyWhenFull ==
  (sp_ret.op = "push" /\ ~sp_ret.ret) => sp_tail - sp_head = sp_capacity

\* C13: front() returns nullptr only if the queue is empty at the instant the
\* call reads tail_: tail = head.  A front() that reads tail_ after a push has
\* stored it, with the element not yet popped, returns the slot, also when
\* cached_tail_ was stale.
C13_FrontNullOnlyWhenEmpty ==
  (sp_ret.op = "front" /\ ~sp_ret.ret) => sp_tail = sp_head

\* C14: from a non-null front() to the matching pop(), the pointer refers to
\* the slot of position head, which holds the constructed element pushed at
\* that position (the (head+1)-th value); the producer is not constructing
\* into that slot; and what the consumer reads through the pointer is that
\* element.  A repeated front() returns the same slot.
C14_FrontRefersToConstructedElement ==
  (sp_concurrent /\ sp_cpc \in {"holding", "read", "pop_destroy"}) =>
    /\ sp_ptr = SPSC_index(sp_head)
    /\ sp_live[sp_ptr]
    /\ sp_ring[sp_ptr] = sp_head + 1
    /\ (sp_ppc \in {"construct", "store_tail"} => SPSC_index(sp_ptail) # sp_ptr)
    /\ (sp_cpc = "read" => sp_val = sp_head + 1)

\* c = 2^k for some k >= 0
IsPowerOfTwo(c) == \E k \in 0 .. c : 2 ^ k = c

\* C15: the SPSCQueue constructor throws std::invalid_argument for capacity 0
\* and for every capacity that is not a power of two, and succeeds for every
\* power-of-two capacity >= 1.
C15_SPSCConstructorRejectsInvalidCapacity ==
  sp_state # "unconstructed" =>
    /\ sp_state = "invalid_argument" <=> ~IsPowerOfTwo(sp_capacity)
    /\ sp_state = "constructed" <=> IsPowerOfTwo(sp_capacity)

(***************************************************************************)
(* Claims: MPMCQueue                                                       *)
(***************************************************************************)
MPMC_quiescent == mq_state = "constructed" /\ \A t \in QThreads : mq_pc[t] = "idle"

\* the positions whose elements pops called one after the other retrieve
MPMC_retrievable ==
  {p \in mq_head .. mq_head + mq_capacity - 1 :
     \A q \in mq_head .. p : mq_seq[MPMC_slot(q)] = q + 1}

MPMC_delivered_values == {v \in 0 .. MaxPushCalls : mq_delivered[v] > 0}

\* C16: every value a pop delivered was passed to a push that returned true,
\* no value is delivered by two pops, and when all calls have completed the
\* values pushed are the values delivered plus, once each, the values that
\* further pops retrieve.
C16_PushedEqualsPoppedPlusQueued ==
  /\ MPMC_delivered_values \subseteq mq_pushed
  /\ \A v \in 0 .. MaxPushCalls : mq_delivered[v] <= 1
  /\ MPMC_quiescent =>
       LET queued == {mq_storage[MPMC_slot(p)] : p \in MPMC_retrievable} IN
         /\ mq_pushed = MPMC_delivered_values \cup queued
         /\ MPMC_delivered_values \cap queued = {}
         /\ Cardinality(queued) = Cardinality(MPMC_retrievable)

\* C17: if the push of v1 returned true before the push of v2 was invoked,
\* then v1 has the smaller position, and once a pop has delivered v2 the pop
\* that delivers v1 has claimed head before it (a smaller position of head),
\* whether it has returned or is still moving v1 out.
C17_FirstPushedFirstPopped ==
  \A v2 \in QValues : \A v1 \in mq_pred[v2] :
    /\ mq_vpos[v2] # NoPos => mq_vpos[v1] < mq_vpos[v2]
    /\ mq_claimpos[v2] # NoPos =>
         \/ mq_claimpos[v1] # NoPos /\ mq_claimpos[v1] < mq_claimpos[v2]
         \/ /\ mq_claimpos[v1] = NoPos
            /\ \E t \in QThreads :
                 /\ mq_pc[t] \in {"pop_move", "pop_release"}
                 /\ mq_pos[t] = mq_vpos[v1]
                 /\ mq_pos[t] < mq_claimpos[v2]

\* C18: a pop returns false only if, at some instant of the call, no element
\* whose push has returned true was left unclaimed by the pops.
C18_PopFalseOnlyWhenEmpty ==
  (mq_ret.op = "pop" /\ ~mq_ret.ret) => mq_ret.saw

\* C19: a push returns false only if, at some instant of the call, the queue
\* held capacity_ elements (or more), counting every element from the claim of
\* its position by the push to the return of its pop.
C19_PushFalseOnlyWhenFull ==
  (mq_ret.op = "push" /\ ~mq_ret.ret) => mq_ret.saw

\* C20: the MPMCQueue constructor throws std::invalid_argument for capacity 0
\* and for every capacity that is not a power of two, and succeeds for every
\* power-of-two capacity >= 1, leaving head = tail = 0 and seq = i in slot i.
C20_MPMCConstructor ==
  mq_state # "unconstructed" =>
    /\ mq_state = "invalid_argument" <=> ~IsPowerOfTwo(mq_capacity)
    /\ mq_state = "constructed" <=> IsPowerOfTwo(mq_capacity)
    /\ (mq_ret.op = "ctor" /\ mq_ret.ret) =>
         /\ mq_head = 0 /\ mq_tail = 0
         /\ \A i \in Slots : i < mq_capacity => mq_seq[i] = i

\* a queue of capacity 2 has just been constructed
C20_Witness ==
  mq_ret.op = "ctor" /\ mq_state = "constructed" /\ mq_capacity = 2

(***************************************************************************)
(* Claims: progress of MPMCQueue                                           *)
(***************************************************************************)
\* C21: MPMCQueue is lock-free: whenever a push or pop call is in progress
\* and the threads inside calls keep taking steps, some push or pop call
\* returns (spurious failures of the weak CAS excluded)
C21_SomeCallReturns ==
  (\E t \in QThreads : mq_pc[t] # "idle") ~> (mq_ret.op \in {"push", "pop"})

\* C22: push and pop never block: a call that runs alone, whatever the
\* other threads did before they stopped, returns within five steps of its
\* own (load, reload, load, CAS and the two accesses to the slot being the
\* longest path through a call)
C22_CallAloneReturnsInBoundedSteps ==
  mq_alone.steps <= 5

(***************************************************************************)
(* Claims: the queues used by one thread                                   *)
(***************************************************************************)
\* the elements in the SPSCQueue: pushed and not popped
SPSC_count == sp_pushes - Len(sp_got)

\* the elements in the MPMCQueue: pushed and not popped
MPMC_count == Cardinality(mq_pushed) - mq_popsDone

\* C23: single-threaded fill and drain of either queue, in every round: a
\* push returns true while fewer than capacity elements are in the queue and
\* false when capacity elements are in it, front and pop deliver the
\* elements in push order, and front (SPSC) or pop (MPMC) reports empty
\* exactly when every pushed element has been popped
C23_FillAndDrain ==
  /\ (sp_ret.op = "push" /\ sp_ret.ret) => SPSC_count <= sp_capacity
  /\ (sp_ret.op = "push" /\ ~sp_ret.ret) => SPSC_count = sp_capacity
  /\ (sp_ret.op = "front" /\ sp_ret.ret) => SPSC_count > 0
  /\ (sp_ret.op = "front" /\ ~sp_ret.ret) => SPSC_count = 0
  /\ sp_cpc = "read" => sp_val = Len(sp_got) + 1
  /\ \A k \in 1 .. Len(sp_got) : sp_got[k] = k
  /\ (mq_ret.op = "push" /\ mq_ret.ret) => MPMC_count <= mq_capacity
  /\ (mq_ret.op = "push" /\ ~mq_ret.ret) => MPMC_count = mq_capacity
  /\ (mq_ret.op = "pop" /\ ~mq_ret.ret) => MPMC_count = 0
  /\ (mq_ret.op = "pop" /\ mq_ret.ret) =>
       LET v == mq_out[mq_ret.t] IN
         /\ v \in mq_pushed
         /\ mq_delivered[v] = 1
         /\ Cardinality({w \in mq_pushed : w < v}) = mq_popsDone - 1

(***************************************************************************)
(* Claims: destruction of the queues                                       *)
(***************************************************************************)
\* the elements in slot i that were pushed and not popped
MPMC_present(i) ==
  {v \in MPMC_available(mq_pushed, mq_vpos, mq_head) : MPMC_slot(mq_vpos[v]) = i}

\* C24: ~MPMCQueue destroys every element that was pushed and not popped
\* exactly once, whatever position it was pushed at, and does not destroy as
\* an element the storage of a slot that holds none
C24_DestroysPresentElementsOnce ==
  mq_state = "destroyed" =>
    \A i \in Slots :
      i < mq_capacity =>
        /\ MPMC_present(i) # {} => Len(mq_destroyed[i]) = 1
        /\ MPMC_present(i) = {} => mq_destroyed[i] = <<"slot.~Slot()">>

\* the elements pushed and not popped when ~SPSCQueue starts, oldest first
SPSC_present == [k \in 1 .. SPSC_count |-> Len(sp_got) + k]

\* C25: ~SPSCQueue terminates and destroys every element that was pushed
\* and not popped exactly once, oldest first, and nothing else: while it
\* runs the destroyed elements are the first of those present, and when it
\* has returned they are all of them and no slot holds an element
C25_DestructorDrainsInOrder ==
  /\ sp_state \in {"destructing", "destroyed"} =>
       /\ Len(sp_destroyed) <= SPSC_count
       /\ sp_destroyed = SubSeq(SPSC_present, 1, Len(sp_destroyed))
  /\ sp_state = "destroyed" =>
       /\ sp_destroyed = SPSC_present
       /\ sp_head = sp_tail
       /\ \A i \in Slots : ~sp_live[i]

\* the destructor has returned after destroying two elements, the first of
\* which was pushed after the ring had wrapped
C25_Witness ==
  /\ sp_state = "destroyed"
  /\ Len(sp_destroyed) = 2
  /\ sp_destroyed[1] > sp_capacity

(***************************************************************************)
(* Claims: ownership of the elements                                       *)
(***************************************************************************)
\* SPSCQueue: the holders of the element of the v-th push that returned
\* true: the queue while its position is between head_ and tail_, and the
\* consumer once for every time front() and pop() handed it over
SPSC_owners(v) ==
  (IF sp_head < v /\ v <= sp_tail THEN 1 ELSE 0)
    + Cardinality({k \in 1 .. Len(sp_got) : sp_got[k] = v})

\* MPMCQueue: the times the element v has been moved into an out argument
MPMC_moved_out(v) ==
  mq_delivered[v]
    + Cardinality({t \in QThreads : mq_pc[t] = "pop_release" /\ mq_out[t] = v})

\* MPMCQueue: the holders of the element v whose push returned true: the
\* slot of its position while it holds v and v has not been moved out, and
\* every out argument v was moved into
MPMC_owners(v) ==
  (IF mq_storage[MPMC_slot(mq_vpos[v])] = v /\ MPMC_moved_out(v) = 0 THEN 1 ELSE 0)
    + MPMC_moved_out(v)

\* C26: every element has exactly one owner at any time: an element whose
\* push returned true is held either by the queue or by the one consumer it
\* was handed to, and the element of a push that has not claimed a position
\* (and so may still return false) has not been moved into the queue
C26_EveryElementHasOneOwner ==
  /\ \A v \in 1 .. sp_pushes : SPSC_owners(v) = 1
  /\ \A v \in mq_pushed : MPMC_owners(v) = 1
  /\ \A t \in QThreads :
       mq_pc[t] \in {"push_load_seq", "push_cas", "push_reload"} =>
         /\ mq_vpos[mq_arg[t]] = NoPos
         /\ \A i \in Slots : mq_storage[i] # mq_arg[t]

(***************************************************************************)
(* Claims: WaitFreeZeroStickyCounter, progress and values                  *)
(***************************************************************************)
\* the atomic operations a call has behind it at each place inside it:
\* fetch_sub, then load, then CAS (decrement); load (read)
WaitFree_steps_taken(pc) ==
  CASE pc = "idle" -> 0
    [] pc = "dec_load" -> 1
    [] pc = "dec_cas" -> 2
    [] pc = "dec_exchange" -> 3
    [] pc = "read_cas" -> 1

\* C27: the counter is wait-free: every atomic step of a thread either
\* returns from its call or takes the call to a place further on, whatever
\* the other threads have done in between, so that a call ends after at
\* most one fetch_add or fetch_sub, one load, one CAS and one exchange
C27_EveryStepAdvancesItsCall ==
  [][\E t \in Threads :
       /\ \A u \in Threads \ {t} : wf_pc'[u] = wf_pc[u]
       /\ \/ wf_ret'.t = t /\ wf_pc'[t] = "idle"
          \/ WaitFree_steps_taken(wf_pc'[t]) = WaitFree_steps_taken(wf_pc[t]) + 1]_vars

\* the CAS of a decrement has failed and the call goes on to its exchange
C27_Witness ==
  \E t \in Threads : wf_pc[t] = "dec_exchange"

\* no call is in progress
WaitFree_quiescent == \A t \in Threads : wf_pc[t] = "idle"

\* C28: read() returns the logical count: it never returns a word with the
\* ZERO or the HELPED bit set; it returns 0 when the counter has latched;
\* and a read that returns while no other call is in progress and the
\* counter has not latched returns the initial value plus the
\* incrementIfNotZero calls that returned true minus the decrement calls
C28_ReadReturnsLogicalCount ==
  wf_ret.op = "read" =>
    /\ TopBits(wf_ret.ret) = 0
    /\ HasZero(wf_counter) => wf_ret.ret = Plain(0)
    /\ (WaitFree_quiescent /\ ~HasZero(wf_counter)) =>
         wf_ret.ret = Plain(wf_init + wf_incTrue - wf_decStarted)

\* C29: the ZERO flag (bit 63) of counter_ is monotonic: no step of
\* incrementIfNotZero, decrement or read clears it once it is set
C29_ZeroFlagIsNeverCleared ==
  [][HasZero(wf_counter) => HasZero(wf_counter')]_vars

(***************************************************************************)
(* Claims: the sequence counter of SeqLock                                 *)
(***************************************************************************)
\* the write() calls that have returned
SeqLock_writes_returned == IF sl_wpc = "idle" THEN sl_writes ELSE sl_writes - 1

\* the writer is between its first and its second store of seq_
SeqLock_between_stores == sl_wpc \in {"value", "store_even"}

\* C30: with a single writer seq_ starts at 0, has grown by exactly 2 with
\* every write() that has returned, is odd exactly while the writer is
\* between its two stores of seq_ (and even otherwise), and never decreases
C30_SeqParityFollowsWriter ==
  /\ [](/\ seq_ = 2 * SeqLock_writes_returned
                  + (IF SeqLock_between_stores THEN 1 ELSE 0)
        /\ seq_ % 2 = 1 <=> SeqLock_between_stores)
  /\ [][seq_' >= seq_]_vars

\* the second write() is between its two stores of seq_
C30_Witness ==
  seq_ = 3 /\ sl_wpc = "value" /\ sl_writes = 2

(***************************************************************************)
(* Claims: invariants and frame conditions of SPSCQueue                    *)
(***************************************************************************)
\* C31: with one producer and one consumer, in every reachable state
\* tail_ >= head_ and tail_ - head_ <= capacity_
C31_HeadTailWithinCapacity ==
  /\ sp_tail >= sp_head
  /\ sp_tail - sp_head <= sp_capacity

\* the queue is full after the positions wrapped around the ring, while both
\* threads run
C31_Witness ==
  /\ sp_state = "constructed" /\ sp_concurrent
  /\ sp_capacity = 2 /\ sp_head >= 2
  /\ sp_tail - sp_head = sp_capacity

\* position p maps to ring slot i: p & (C - 1) == i
SPSC_maps_to(p, i) == BitAnd(p, Minus1(sp_capacity)) = i

\* C32 as stated: in every reachable state, ring slot i holds a constructed
\* element iff some position p with head_ <= p < tail_ maps to i
C32_SlotLiveIffBetweenHeadAndTail ==
  sp_state = "constructed" =>
    \A i \in Slots :
      sp_live[i] <=> \E p \in sp_head .. sp_tail - 1 : SPSC_maps_to(p, i)

\* the first position whose element the consumer has not destroyed
SPSC_first_live == IF sp_cpc = "pop_store" THEN sp_head + 1 ELSE sp_head

\* the position after the last one the producer has constructed
SPSC_end_live == IF sp_ppc = "store_tail" THEN sp_tail + 1 ELSE sp_tail

\* C32, amended: ring slot i holds a constructed element iff some position p
\* maps to i that is either in head_ <= p < tail_ and not yet destroyed by a
\* pop() in progress, or is tail_ and already constructed by an emplace() in
\* progress; the producer never constructs into a slot that holds a live
\* element and the consumer never destroys a slot that holds none
C32_SlotLiveIffConstructedAndNotDestroyed ==
  /\ [](sp_state = "constructed" =>
          \A i \in Slots :
            sp_live[i] <=>
              \E p \in SPSC_first_live .. SPSC_end_live - 1 : SPSC_maps_to(p, i))
  /\ [][/\ (sp_ppc = "construct" /\ sp_ppc' = "store_tail")
             => ~sp_live[SPSC_index(sp_ptail)]
        /\ (sp_cpc = "pop_destroy" /\ sp_cpc' = "pop_store")
             => sp_live[SPSC_index(sp_chead)]]_vars

\* the producer has constructed into a slot that a pop() freed one cycle
\* earlier, while the consumer is destroying the element of another slot
C32_Witness ==
  /\ sp_state = "constructed" /\ sp_concurrent /\ sp_capacity = 2
  /\ sp_ppc = "store_tail" /\ sp_ptail >= 2
  /\ sp_cpc = "pop_store"

\* C33: in every reachable state cached_head_ <= head_ <= cached_tail_ <=
\* tail_; hence from a non-null front() to the matching pop() the queue is
\* not empty for pop's test, !empty(head, cached_tail_), and the assertion of
\* pop() never fails
C33_CachesNeverAheadOfCounters ==
  /\ sp_cached_head <= sp_head
  /\ sp_head <= sp_cached_tail
  /\ sp_cached_tail <= sp_tail
  /\ sp_cpc \in {"holding", "read"} => ~SPSC_empty(sp_head, sp_cached_tail)
  /\ sp_state = "aborted" => sp_cpc = "idle"

\* a pop() that followed a non-null front() has passed its assertion while
\* cached_tail_ was stale, after the positions wrapped around the ring
C33_Witness ==
  /\ sp_state = "constructed" /\ sp_concurrent /\ sp_capacity = 2
  /\ sp_cpc = "pop_destroy"
  /\ sp_chead >= 2
  /\ sp_cached_tail < sp_tail

\* the step is one of the producer's emplace()
SPSC_producer_step == sp_ppc' # sp_ppc

\* the step is one of the consumer's front(), pop() or of its read through
\* the pointer
SPSC_consumer_step ==
  sp_state = "constructed" /\ sp_ppc' = sp_ppc /\ spVars' # spVars

\* the step is one of front()
SPSC_front_step ==
  /\ SPSC_consumer_step
  /\ sp_cpc = "front_load_tail" \/ sp_cpc' = "front_load_tail" \/ sp_ret'.op = "front"

\* C34: a push that returns false takes no step that changes tail_, head_ or
\* a ring slot (it may change cached_head_); no step of front() changes
\* head_, tail_ or a ring slot (it may change cached_tail_); no step of the
\* producer changes head_ or cached_tail_ and no step of the consumer changes
\* tail_ or cached_head_
C34_FrameConditions ==
  [][/\ (sp_ret'.op = "push" /\ ~sp_ret'.ret) => sp_ppc = "load_head"
     /\ (SPSC_producer_step /\ sp_ppc \in {"idle", "load_head"})
          => UNCHANGED <<sp_tail, sp_head, sp_ring, sp_live, sp_cached_tail>>
     /\ SPSC_front_step
          => UNCHANGED <<sp_head, sp_tail, sp_ring, sp_live, sp_cached_head>>
     /\ SPSC_producer_step => UNCHANGED <<sp_head, sp_cached_tail>>
     /\ SPSC_consumer_step => UNCHANGED <<sp_tail, sp_cached_head>>]_vars

\* a push has returned false after refreshing cached_head_, and a front() had
\* refreshed cached_tail_, while both threads run
C34_Witness ==
  /\ sp_state = "constructed" /\ sp_concurrent
  /\ sp_ret.op = "push" /\ ~sp_ret.ret
  /\ sp_cached_head >= 1
  /\ sp_cached_tail >= 2
  /\ sp_cpc = "holding"

(***************************************************************************)
(* Claims: invariants and frame conditions of MPMCQueue                    *)
(***************************************************************************)
\* the positions a call can reach within the bounds
MPMC_positions == 0 .. MaxPushCalls + MaxCapacity

\* the element pushed at position p has been published by its push and not
\* yet released by a pop
MPMC_holds(p) ==
  \E v \in mq_pushed : mq_vpos[v] = p /\ mq_claimpos[v] = NoPos

\* slot i holds no published element
MPMC_slot_empty(i) ==
  ~\E p \in MPMC_positions : MPMC_slot(p) = i /\ MPMC_holds(p)

\* position p is the first position of slot i that no push has published
MPMC_next_push(i, p) ==
  /\ MPMC_slot(p) = i
  /\ ~\E v \in mq_pushed : mq_vpos[v] = p
  /\ \A q \in 0 .. p - 1 :
       MPMC_slot(q) = i => \E v \in mq_pushed : mq_vpos[v] = q

\* C35: for each slot i and each position p that maps to i, seq == p exactly
\* when the slot holds no published element and p is the position of its
\* next push, and seq == p + 1 exactly when the slot holds the published
\* element of position p (from the store that publishes it to the store that
\* releases the slot); seq is always one of these values; and the seq of a
\* slot never decreases
C35_SeqTellsSlotState ==
  /\ [](mq_state = "constructed" =>
          \A i \in 0 .. mq_capacity - 1 :
            /\ \E p \in MPMC_positions :
                 MPMC_slot(p) = i /\ mq_seq[i] \in {p, p + 1}
            /\ \A p \in MPMC_positions :
                 MPMC_slot(p) = i =>
                   /\ mq_seq[i] = p <=> MPMC_slot_empty(i) /\ MPMC_next_push(i, p)
                   /\ mq_seq[i] = p + 1 <=> MPMC_holds(p))
  /\ [][\A i \in Slots : mq_seq'[i] >= mq_seq[i]]_vars

\* thread t is between its successful CAS on tail_ or head_ and its release
\* store to the seq of the slot it claimed
MPMC_owns_slot(t, i) ==
  /\ mq_pc[t] \in {"push_construct", "push_publish", "pop_move", "pop_release"}
  /\ MPMC_slot(mq_pos[t]) = i

\* the step is thread t's access to the storage of slot i: the construction
\* of emplace or the move of pop
MPMC_accesses_storage(t, i) ==
  /\ mq_pc[t] \in {"push_construct", "pop_move"}
  /\ mq_pc'[t] # mq_pc[t]
  /\ MPMC_slot(mq_pos[t]) = i

\* C36: for every accepted capacity, while a thread is between its successful
\* CAS on tail_ or head_ and its release store to the slot's seq, no other
\* thread constructs into or moves out of the storage of that slot
C36_ClaimedSlotIsExclusive ==
  [][\A t \in QThreads : \A u \in QThreads \ {t} : \A i \in Slots :
       MPMC_owns_slot(t, i) => ~MPMC_accesses_storage(u, i)]_vars

\* the pop that claimed position p has stored seq: it has released the slot
MPMC_released(p) == \E v \in QValues : mq_claimpos[v] = p

\* C37: in every reachable state head_ <= tail_ and tail_ - head_ <=
\* capacity_; a producer claims a position only after the pop of the position
\* one cycle earlier has released the slot
C37_HeadTailWithinCapacity ==
  /\ [](mq_state = "constructed" =>
          /\ mq_head <= mq_tail
          /\ mq_tail - mq_head <= mq_capacity)
  /\ [][\A t \in QThreads :
          (mq_pc[t] = "push_cas" /\ mq_pc'[t] = "push_construct"
             /\ mq_pos[t] >= mq_capacity)
            => MPMC_released(mq_pos[t] - mq_capacity)]_vars

\* C38: for every slot, constructions and destructions of its storage
\* alternate: emplace never constructs the element over storage that holds a
\* live object, and when pop returns true the storage of the slot it emptied
\* holds no live object
C38_ConstructionsAndDestructionsAlternate ==
  [][\A t \in QThreads :
       /\ (mq_pc[t] = "push_construct" /\ mq_pc'[t] = "push_publish")
            => ~mq_live[MPMC_slot(mq_pos[t])]
       /\ (mq_pc[t] = "pop_release" /\ mq_pc'[t] = "idle")
            => ~mq_live'[MPMC_slot(mq_pos[t])]]_vars

\* the step leaves every slot other than i as it was
MPMC_other_slots_unchanged(i) ==
  \A j \in Slots \ {i} : mq_seq'[j] = mq_seq[j] /\ mq_storage'[j] = mq_storage[j]

\* the step leaves the out argument of every thread other than t as it was
MPMC_other_outs_unchanged(t) ==
  \A u \in QThreads \ {t} : mq_out'[u] = mq_out[u]

\* what a step of thread t, whose claimed position maps to slot i, may write
MPMC_step_frame(t, i) ==
  CASE mq_pc[t] \in {"idle", "push_load_seq", "push_reload",
                     "pop_load_seq", "pop_reload"} ->
         UNCHANGED <<mq_head, mq_tail, mq_seq, mq_storage, mq_out>>
    [] mq_pc[t] = "push_cas" ->
         /\ UNCHANGED <<mq_head, mq_seq, mq_storage, mq_out>>
         /\ mq_pc'[t] # "push_construct" => UNCHANGED mq_tail
    [] mq_pc[t] = "push_construct" ->
         /\ UNCHANGED <<mq_head, mq_tail, mq_seq, mq_out>>
         /\ MPMC_other_slots_unchanged(i)
    [] mq_pc[t] = "push_publish" ->
         /\ UNCHANGED <<mq_head, mq_tail, mq_storage, mq_out>>
         /\ MPMC_other_slots_unchanged(i)
    [] mq_pc[t] = "pop_cas" ->
         /\ UNCHANGED <<mq_tail, mq_seq, mq_storage, mq_out>>
         /\ mq_pc'[t] # "pop_move" => UNCHANGED mq_head
    [] mq_pc[t] = "pop_move" ->
         /\ UNCHANGED <<mq_head, mq_tail, mq_seq>>
         /\ MPMC_other_slots_unchanged(i)
         /\ MPMC_other_outs_unchanged(t)
    [] mq_pc[t] = "pop_release" ->
         /\ UNCHANGED <<mq_head, mq_tail, mq_storage, mq_out>>
         /\ MPMC_other_slots_unchanged(i)

\* C39: a push or a pop that returns false has taken no step that changes
\* head_, tail_, a seq, a storage or out: it returns from the load of seq,
\* before which a call only loads and fails a CAS; a push that returns true
\* changes tail_ (its CAS) and the storage and the seq of the slot of its
\* position, nothing else; a pop that returns true changes head_ (its CAS),
\* its own out, and the storage and the seq of the slot of its position,
\* nothing else
C39_FrameConditions ==
  [][\A t \in QThreads :
       /\ (mq_ret'.t = t /\ mq_ret'.op \in {"push", "pop"} /\ ~mq_ret'.ret)
            => mq_pc[t] \in {"push_load_seq", "pop_load_seq"}
       /\ (mq_ret'.t = t /\ mq_ret'.op \in {"push", "pop"} /\ mq_ret'.ret)
            => mq_pc[t] \in {"push_publish", "pop_release"}
       /\ mq_pc'[t] # mq_pc[t]
            => MPMC_step_frame(t, mq_pos[t] % mq_capacity)]_vars

\* a pop has returned false, on the emptied queue, after pushes and pops had
\* gone once around the ring
C39_Witness ==
  /\ mq_state = "constructed" /\ mq_capacity = 2
  /\ mq_ret.op = "pop" /\ ~mq_ret.ret
  /\ mq_head = 3 /\ mq_tail = 3

(***************************************************************************)
(* Claims: construction that fails                                         *)
(***************************************************************************)
\* C40: when the constructor of SPSCQueue or of MPMCQueue has thrown
\* std::invalid_argument, the ring buffer it obtained from the allocator has
\* been given back: no allocation of the failed construction is live
C40_FailedConstructionReleasesRing ==
  /\ sp_state = "invalid_argument" => sp_allocated = 0
  /\ mq_state = "invalid_argument" => mq_allocated = 0

=========================================================================
